---- MODULE Spec2Model ----
(***************************************************************************)
(* Outline extraction of cpai: the four language extractors               *)
(* (cpai/outline/{javascript,python,rust,solidity}.py) and the            *)
(* FunctionInfo record they produce (cpai/outline/base.py).               *)
(*                                                                         *)
(* Text is modelled at the granularity of lexemes.  A string is a         *)
(* sequence of one-character strings; a source line of the two line       *)
(* scanners (Rust, Solidity) is a sequence of lexemes, each lexeme a      *)
(* string: a word (\w+), a run of whitespace (SP) or a punctuation mark.  *)
(* The regular expressions of the scanners are translated to matchers     *)
(* over lexemes.  An optional Python value is a sequence of length 0      *)
(* (None) or 1.                                                            *)
(***************************************************************************)
EXTENDS Integers, Sequences, FiniteSets, TLC

VARIABLES lang, content, pc, functions, raised, calls, left,
          files_dict, renders,
          options, file_list, cursor, processed, document, halted,
          environment, outcome

(* the calls made so far on one extractor instance, and the locals the    *)
(* last of them ended with                                                 *)
callVars == <<calls, left>>

(* the mapping of path to Declaration list handed to the renderers of the *)
(* tree, and the renderings made of it so far                              *)
treeVars == <<files_dict, renders>>

(* process_files: the config, the list of files with what the file       *)
(* system holds for each, the position of the loop, the dict               *)
(* processed_files, the value returned, and whether an exception left the  *)
(* loop                                                                    *)
fileVars == <<options, file_list, cursor, processed, document, halted>>

(* one call of read_config, write_output or get_files: what the call is    *)
(* given and finds (arguments, files, the clipboard command), and what it  *)
(* returns and leaves behind                                               *)
ioVars == <<environment, outcome>>

vars == <<lang, content, pc, functions, raised, callVars, treeVars, fileVars, ioVars>>

(* none of read_config, write_output and get_files is running *)
IoIdle == environment = <<>> /\ outcome = <<>>

(* process_files is not running *)
FilesIdle ==
    /\ options = [tree |-> FALSE, fileExtensions |-> {}, exclude |-> <<>>]
    /\ file_list = <<>>
    /\ cursor = 0
    /\ processed = <<>>
    /\ document = <<>>
    /\ halted = FALSE

(* no mapping is being rendered *)
TreeIdle == files_dict = <<>> /\ renders = <<>>

----------------------------------------------------------------------------
(* Bounds of the model *)

MaxRustLines == 3
MaxSolLines == 3
MaxPyLines == 3
MaxJsNodes == 2

----------------------------------------------------------------------------
(* Generic helpers *)

None == <<>>

Some(x) == <<x>>

Range(s) == {s[i] : i \in DOMAIN s}

SeqsUpTo(S, n) == UNION {[1..k -> S] : k \in 0..n}

Min(S) == CHOOSE x \in S : \A y \in S : x <= y

Max(S) == CHOOSE x \in S : \A y \in S : x >= y

RECURSIVE Flatten(_)
Flatten(ss) == IF ss = <<>> THEN <<>> ELSE Head(ss) \o Flatten(Tail(ss))

RECURSIVE JoinWith(_, _)
JoinWith(sep, ss) ==
    IF ss = <<>> THEN <<>>
    ELSE IF Len(ss) = 1 THEN ss[1]
    ELSE ss[1] \o sep \o JoinWith(sep, Tail(ss))

(* str.startswith('_') *)
StartsWithUnderscore(name) == name # <<>> /\ name[1] = "_"

----------------------------------------------------------------------------
(* Lexemes *)

SP == <<" ">>
LPAREN == <<"(">>
RPAREN == <<")">>
LBRACE == <<"{">>
RBRACE == <<"}">>
LT == <<"<">>
GT == <<">">>
SEMI == <<";">>
ARROW == <<"-", ">">>
DOTS == <<".", ".">>
SLASH2 == <<"/", "/">>
SLASH3 == <<"/", "/", "/">>
OPENC == <<"/", "*">>
CLOSEC == <<"*", "/">>
STAR == <<"*">>

WordChars ==
    {"a", "b", "c", "d", "e", "f", "g", "h", "i", "j", "k", "l", "m", "n",
     "o", "p", "q", "r", "s", "t", "u", "v", "w", "x", "y", "z",
     "A", "B", "C", "D", "E", "F", "G", "H", "I", "J", "K", "L", "M", "N",
     "O", "P", "Q", "R", "S", "T", "U", "V", "W", "X", "Y", "Z",
     "0", "1", "2", "3", "4", "5", "6", "7", "8", "9", "_"}

(* \w+ *)
IsWord(lex) == lex # <<>> /\ \A i \in DOMAIN lex : lex[i] \in WordChars

(* \s+ *)
IsSpace(lex) == lex = SP

(* str.strip() on a line of lexemes *)
RECURSIVE LStrip(_)
LStrip(line) ==
    IF line # <<>> /\ IsSpace(Head(line)) THEN LStrip(Tail(line)) ELSE line

RECURSIVE RStrip(_)
RStrip(line) ==
    IF line # <<>> /\ IsSpace(line[Len(line)])
    THEN RStrip(SubSeq(line, 1, Len(line) - 1))
    ELSE line

Strip(line) == RStrip(LStrip(line))

(* the lexeme at position i, or the empty string past the end *)
At(line, i) == IF i \in DOMAIN line THEN line[i] ELSE <<>>

(* keywords and identifiers used by the inputs *)
kw_pub == <<"p", "u", "b">>
kw_struct == <<"s", "t", "r", "u", "c", "t">>
kw_enum == <<"e", "n", "u", "m">>
kw_trait == <<"t", "r", "a", "i", "t">>
kw_impl == <<"i", "m", "p", "l">>
kw_for == <<"f", "o", "r">>
kw_dyn == <<"d", "y", "n">>
kw_fn == <<"f", "n">>
kw_async == <<"a", "s", "y", "n", "c">>
kw_const == <<"c", "o", "n", "s", "t">>
kw_Self == <<"S", "e", "l", "f">>
kw_contract == <<"c", "o", "n", "t", "r", "a", "c", "t">>
kw_abstract == <<"a", "b", "s", "t", "r", "a", "c", "t">>
kw_interface == <<"i", "n", "t", "e", "r", "f", "a", "c", "e">>
kw_function == <<"f", "u", "n", "c", "t", "i", "o", "n">>
kw_constructor == <<"c", "o", "n", "s", "t", "r", "u", "c", "t", "o", "r">>
kw_fallback == <<"f", "a", "l", "l", "b", "a", "c", "k">>
kw_receive == <<"r", "e", "c", "e", "i", "v", "e">>
kw_public == <<"p", "u", "b", "l", "i", "c">>

id_Foo == <<"F", "o", "o">>
id_Bar == <<"B", "a", "r">>
id_P == <<"_", "P">>
id_bar == <<"b", "a", "r">>
id_new == <<"n", "e", "w">>
id_h == <<"_", "h">>
id_init == <<"_", "_", "i", "n", "i", "t", "_", "_">>
id_it == <<"i", "t">>
id_method == <<"m", "e", "t", "h", "o", "d">>
id_private_method == <<"p", "r", "i", "v", "a", "t", "e", "_", "m", "e", "t", "h", "o", "d">>
id_a == <<"a">>
id_b == <<"b">>
id_self == <<"s", "e", "l", "f">>
id_setUp == <<"s", "e", "t", "U", "p">>
id_tearDown == <<"t", "e", "a", "r", "D", "o", "w", "n">>
id_setUpClass == <<"s", "e", "t", "U", "p", "C", "l", "a", "s", "s">>
id_tearDownClass == <<"t", "e", "a", "r", "D", "o", "w", "n", "C", "l", "a", "s", "s">>
txt_d == <<"d">>
txt_c == <<"c">>
DOT == <<".">>

----------------------------------------------------------------------------
(* base.py: FunctionInfo *)

(* `parameters or args`: the first truthy operand, else the last *)
PyOr(x, y) == IF x # None /\ x[1] # <<>> THEN x ELSE y

FunctionInfo(name, line_number, parameters, args, leading_comment, is_export, is_default_export, node_type) ==
    [name |-> name,
     line_number |-> line_number,
     parameters |-> PyOr(parameters, args),
     leading_comment |-> leading_comment,
     is_export |-> is_export,
     is_default_export |-> is_default_export,
     node_type |-> node_type]

(* a try block without its handler: the exception leaves extract_functions *)
TryExcept_unhandled(body) == [functions |-> body.functions, raised |-> body.exc]

(* the handler `except Exception as e: logging.error(...)` that closes the  *)
(* try block of every extract_functions: the exception is swallowed and the *)
(* list built so far is returned                                            *)
TryExcept(body) == [functions |-> body.functions, raised |-> FALSE]

----------------------------------------------------------------------------
(* rust.py: RustOutlineExtractor *)

(* re.search: the match at the leftmost position where the pattern matches, *)
(* matches[i] being the match of the pattern at position i, if any          *)
Search(matches) ==
    LET hits == {i \in DOMAIN matches : matches[i] # None}
    IN  IF hits = {} THEN None ELSE matches[Min(hits)]

(* `KW\s+(\w+)` at position i; an optional `pub ` before KW does not change *)
(* whether the pattern matches nor its group 1                              *)
KwNameAt(line, i, kw) ==
    IF At(line, i) = kw /\ IsSpace(At(line, i + 1)) /\ IsWord(At(line, i + 2))
    THEN Some(line[i + 2])
    ELSE None

Rust_StructAt(line, i) == KwNameAt(line, i, kw_struct)

Rust_EnumAt(line, i) == KwNameAt(line, i, kw_enum)

Rust_TraitAt(line, i) == KwNameAt(line, i, kw_trait)

Rust_STRUCT_PATTERN(line) == Search([i \in DOMAIN line |-> Rust_StructAt(line, i)])

Rust_ENUM_PATTERN(line) == Search([i \in DOMAIN line |-> Rust_EnumAt(line, i)])

Rust_TRAIT_PATTERN(line) == Search([i \in DOMAIN line |-> Rust_TraitAt(line, i)])

(* `\s+(?:(?:dyn\s+)?[^{]+\s+for\s+)?(\w+)` after position p: the greedy  *)
(* `[^{]+` takes the last ` for ` that no brace precedes                   *)
Rust_ImplRest(line, p) ==
    IF ~IsSpace(At(line, p + 1)) THEN None
    ELSE LET r == p + 2
             fors == {m \in DOMAIN line :
                        /\ m >= r + 2
                        /\ line[m] = kw_for
                        /\ IsSpace(line[m - 1])
                        /\ IsSpace(At(line, m + 1))
                        /\ IsWord(At(line, m + 2))
                        /\ \A k \in r..(m - 2) : line[k] # LBRACE}
         IN  IF fors # {} THEN Some(line[Max(fors) + 2])
             ELSE IF IsWord(At(line, r)) THEN Some(line[r])
             ELSE None

(* `impl(?:\s*<[^>]+>)?` at position i, then Rust_ImplRest *)
Rust_ImplAt(line, i) ==
    IF At(line, i) # kw_impl THEN None
    ELSE LET o == IF At(line, i + 1) = LT THEN i + 1
                  ELSE IF IsSpace(At(line, i + 1)) /\ At(line, i + 2) = LT
                       THEN i + 2
                       ELSE 0
             closes == {g \in DOMAIN line :
                          /\ o > 0
                          /\ g > o + 1
                          /\ line[g] = GT
                          /\ \A k \in (o + 1)..(g - 1) : line[k] # GT}
             withGenerics == IF closes = {} THEN None
                             ELSE Rust_ImplRest(line, Min(closes))
         IN  IF withGenerics # None THEN withGenerics
             ELSE Rust_ImplRest(line, i)

Rust_IMPL_PATTERN(line) == Search([i \in DOMAIN line |-> Rust_ImplAt(line, i)])

(* `fn\s+(\w+)\s*[(<]` at position i; the optional `pub`, `async` and     *)
(* `const` before `fn` do not change the match nor its group 1             *)
Rust_FnAt(line, i) ==
    IF /\ At(line, i) = kw_fn
       /\ IsSpace(At(line, i + 1))
       /\ IsWord(At(line, i + 2))
       /\ \/ At(line, i + 3) \in {LPAREN, LT}
          \/ IsSpace(At(line, i + 3)) /\ At(line, i + 4) \in {LPAREN, LT}
    THEN Some(line[i + 2])
    ELSE None

Rust_FUNCTION_PATTERN(line) == Search([i \in DOMAIN line |-> Rust_FnAt(line, i)])

(* re.match(DOC_COMMENT_PATTERN, line) *)
Rust_DOC_COMMENT_PATTERN(line) == line # <<>> /\ Head(line) = SLASH3

(* re.sub(r'///\s*', '', line) *)
RECURSIVE Rust_sub_doc(_)
Rust_sub_doc(line) ==
    IF line = <<>> THEN <<>>
    ELSE IF Head(line) = SLASH3 THEN Rust_sub_doc(LStrip(Tail(line)))
    ELSE <<Head(line)>> \o Rust_sub_doc(Tail(line))

(* re.search(COMMENT_PATTERN, prev_line).group(0): a `//` comment running *)
(* to the end of the line, or a `/* */` block that ends the line           *)
Rust_COMMENT_PATTERN(line) ==
    LET n == Len(line)
        hits == {i \in DOMAIN line :
                   \/ line[i] = SLASH2
                   \/ /\ line[i] = OPENC
                      /\ i < n
                      /\ line[n] = CLOSEC
                      /\ \A k \in (i + 1)..(n - 1) : line[k] # CLOSEC}
    IN  IF hits = {} THEN None ELSE Some(SubSeq(line, Min(hits), n))

(* re.sub(r'//\s*|/\*|\*/|\*\s*', '', comment) *)
RECURSIVE Rust_sub_comment(_)
Rust_sub_comment(line) ==
    IF line = <<>> THEN <<>>
    ELSE IF Head(line) \in {SLASH2, STAR} THEN Rust_sub_comment(LStrip(Tail(line)))
    ELSE IF Head(line) \in {OPENC, CLOSEC} THEN Rust_sub_comment(Tail(line))
    ELSE <<Head(line)>> \o Rust_sub_comment(Tail(line))

(* the list doc_comments after scanning the lines i, i-1, ..., 1 *)
RECURSIVE Rust_doc_comments(_, _)
Rust_doc_comments(lines, i) ==
    IF i < 1 THEN <<>>
    ELSE LET line == Strip(lines[i])
         IN  IF line = <<>> THEN Rust_doc_comments(lines, i - 1)
             ELSE IF Rust_DOC_COMMENT_PATTERN(line)
                  THEN Append(Rust_doc_comments(lines, i - 1),
                              Flatten(Rust_sub_doc(line)))
                  ELSE <<>>

(* get_leading_comment(lines, line_num); n is the 1-based line, n = line_num + 1 *)
Rust_get_leading_comment(lines, n) ==
    IF n = 1 THEN None
    ELSE LET doc_comments == Rust_doc_comments(lines, n - 1)
             prev_line == Strip(lines[n - 1])
             comment_match == Rust_COMMENT_PATTERN(prev_line)
         IN  IF doc_comments # <<>> THEN Some(JoinWith(<<" ">>, doc_comments))
             ELSE IF comment_match # None
                  THEN Some(Flatten(Strip(Rust_sub_comment(comment_match[1]))))
                  ELSE None

Rust_init ==
    [functions |-> <<>>,
     current_type |-> None,
     current_impl |-> None,
     current_path |-> <<>>,
     seen_names |-> {},
     in_block_comment |-> FALSE]

(* the branch shared by struct, enum and trait definitions *)
Rust_type_definition(st, lines, n, name, node_type) ==
    IF StartsWithUnderscore(name) THEN st
    ELSE LET st1 == [st EXCEPT !.current_type = Some(name),
                               !.current_path = <<name>>]
         IN  IF name \in st.seen_names THEN st1
             ELSE [st1 EXCEPT
                     !.seen_names = @ \cup {name},
                     !.functions = Append(@,
                         FunctionInfo(name, n, None, None,
                                      Rust_get_leading_comment(lines, n),
                                      FALSE, FALSE, node_type))]

(* the conventional trait-method names the specification lists *)
RustStoplist ==
    {<<"n", "e", "w">>,
     <<"d", "e", "f", "a", "u", "l", "t">>,
     <<"c", "l", "o", "n", "e">>,
     <<"d", "r", "o", "p">>,
     <<"a", "s", "_", "r", "e", "f">>,
     <<"a", "s", "_", "m", "u", "t">>,
     <<"f", "r", "o", "m">>,
     <<"i", "n", "t", "o">>,
     <<"t", "r", "y", "_", "f", "r", "o", "m">>,
     <<"t", "r", "y", "_", "i", "n", "t", "o">>}

(* the fn filter with the stoplist added to it *)
Rust_fn_included_stoplist(name) ==
    (~StartsWithUnderscore(name) \/ name = id_init) /\ name \notin RustStoplist

(* the fn branch: filter on the leading underscore, qualify, deduplicate *)
Rust_fn_included(name) == ~StartsWithUnderscore(name) \/ name = id_init

(* the fn branch without the test `full_name not in seen_names` *)
Rust_function_definition_unseen(st, lines, n, name) ==
    IF ~Rust_fn_included(name) THEN st
    ELSE LET full_name == IF st.current_path # <<>>
                          THEN JoinWith(DOT, st.current_path) \o DOT \o name
                          ELSE name
         IN  [st EXCEPT
                !.seen_names = @ \cup {full_name},
                !.functions = Append(@,
                    FunctionInfo(full_name, n, None, None,
                                 Rust_get_leading_comment(lines, n),
                                 FALSE, FALSE,
                                 IF st.current_impl # None
                                 THEN "method" ELSE "function"))]

(* the fn branch in which a name seen again overwrites its first record *)
Rust_function_definition_overwrite(st, lines, n, name) ==
    IF ~Rust_fn_included(name) THEN st
    ELSE LET full_name == IF st.current_path # <<>>
                          THEN JoinWith(DOT, st.current_path) \o DOT \o name
                          ELSE name
             info == FunctionInfo(full_name, n, None, None,
                                  Rust_get_leading_comment(lines, n),
                                  FALSE, FALSE,
                                  IF st.current_impl # None
                                  THEN "method" ELSE "function")
         IN  IF full_name \in st.seen_names
             THEN [st EXCEPT !.functions =
                     [i \in DOMAIN @ |-> IF @[i].name = full_name THEN info ELSE @[i]]]
             ELSE [st EXCEPT !.seen_names = @ \cup {full_name},
                             !.functions = Append(@, info)]

Rust_function_definition(st, lines, n, name) ==
    IF ~Rust_fn_included(name) THEN st
    ELSE LET full_name == IF st.current_path # <<>>
                          THEN JoinWith(DOT, st.current_path) \o DOT \o name
                          ELSE name
         IN  IF full_name \in st.seen_names THEN st
             ELSE [st EXCEPT
                     !.seen_names = @ \cup {full_name},
                     !.functions = Append(@,
                         FunctionInfo(full_name, n, None, None,
                                      Rust_get_leading_comment(lines, n),
                                      FALSE, FALSE,
                                      IF st.current_impl # None
                                      THEN "method" ELSE "function"))]

(* one iteration of `for line_num, line in enumerate(lines)` *)
Rust_scan_line(st, lines, n) ==
    LET line == Strip(lines[n])
        opens == \E i \in DOMAIN line : line[i] = OPENC
        closes == \E i \in DOMAIN line : line[i] = CLOSEC
        st1 == IF opens THEN [st EXCEPT !.in_block_comment = TRUE] ELSE st
        struct_match == Rust_STRUCT_PATTERN(line)
        enum_match == Rust_ENUM_PATTERN(line)
        trait_match == Rust_TRAIT_PATTERN(line)
        impl_match == Rust_IMPL_PATTERN(line)
        fn_match == Rust_FUNCTION_PATTERN(line)
    IN  IF line = <<>> THEN st
        ELSE IF closes THEN [st1 EXCEPT !.in_block_comment = FALSE]
        ELSE IF st1.in_block_comment THEN st1
        ELSE IF struct_match # None
             THEN Rust_type_definition(st1, lines, n, struct_match[1], "struct")
        ELSE IF enum_match # None
             THEN Rust_type_definition(st1, lines, n, enum_match[1], "enum")
        ELSE IF trait_match # None
             THEN Rust_type_definition(st1, lines, n, trait_match[1], "trait")
        ELSE IF impl_match # None
             THEN [st1 EXCEPT !.current_impl = impl_match,
                              !.current_path = <<impl_match[1]>>]
        ELSE IF fn_match # None
             THEN Rust_function_definition(st1, lines, n, fn_match[1])
        ELSE st1

RECURSIVE Rust_scan(_, _, _)
Rust_scan(st, lines, n) ==
    IF n > Len(lines) THEN st
    ELSE Rust_scan(Rust_scan_line(st, lines, n), lines, n + 1)

(* extract_functions(content); lines == content.splitlines() *)
Rust_extract_functions(lines) ==
    TryExcept([functions |-> Rust_scan(Rust_init, lines, 1).functions,
               exc |-> FALSE])

----------------------------------------------------------------------------
(* Inputs of the Rust extractor: lines of Rust source *)

R_blank == <<>>
R_close == <<RBRACE>>
R_struct == <<kw_pub, SP, kw_struct, SP, id_Foo, SP, LBRACE>>
R_enum == <<kw_enum, SP, id_Bar, SP, LBRACE>>
R_trait == <<kw_trait, SP, id_Bar, SP, LBRACE>>
R_impl == <<kw_impl, SP, id_Foo, SP, LBRACE>>
R_impl_for == <<kw_impl, SP, id_Bar, SP, kw_for, SP, id_Foo, SP, LBRACE>>
R_pub_fn_bar == <<kw_pub, SP, kw_fn, SP, id_bar, LPAREN, RPAREN, SP, LBRACE>>
R_fn_bar_c == <<SP, kw_fn, SP, id_bar, LPAREN, RPAREN, SP, LBRACE, RBRACE,
                SP, SLASH2, SP, txt_c>>
R_fn_new == <<kw_fn, SP, id_new, LPAREN, RPAREN, SP, ARROW, SP, kw_Self, SP, LBRACE>>
R_fn_h == <<kw_fn, SP, id_h, LPAREN, RPAREN, SP, LBRACE>>
R_fn_init == <<kw_fn, SP, id_init, LPAREN, RPAREN, SP, LBRACE>>
R_fn_it == <<kw_fn, SP, id_it, LPAREN, RPAREN, SP, ARROW, SP, kw_impl, SP, id_Bar,
             SP, LBRACE>>
R_doc == <<SLASH3, SP, txt_d>>
R_comment == <<SLASH2, SP, txt_c>>
R_open_comment == <<OPENC>>
R_close_comment == <<CLOSEC>>
R_impl_one_line ==
    <<kw_impl, SP, id_Foo, SP, LBRACE, SP,
      kw_pub, SP, kw_fn, SP, id_bar, LPAREN, RPAREN, SP, LBRACE, RBRACE, SP,
      kw_fn, SP, id_new, LPAREN, RPAREN, SP, ARROW, SP, kw_Self, SP,
      LBRACE, SP, DOTS, SP, RBRACE, SP, RBRACE>>

RustLines ==
    {R_blank, R_close, R_struct, R_enum, R_trait, R_impl, R_impl_for,
     R_pub_fn_bar, R_fn_bar_c, R_fn_new, R_fn_h, R_fn_init, R_fn_it,
     R_doc, R_comment, R_open_comment, R_close_comment, R_impl_one_line}

(* the impl block of tests/test_tree.py::test_rust_impl *)
R_pub_fn_new == <<kw_pub, SP, kw_fn, SP, id_new, LPAREN, RPAREN, SP, ARROW, SP, kw_Self, SP, LBRACE>>
R_pub_fn_method == <<kw_pub, SP, kw_fn, SP, id_method, LPAREN, RPAREN, SP, LBRACE>>
R_fn_private_method == <<kw_fn, SP, id_private_method, LPAREN, RPAREN, SP, LBRACE>>
RustTestImpl == <<R_impl, R_pub_fn_new, R_pub_fn_method, R_fn_private_method, R_close>>

(* scenario D of the specification, one declaration per line *)
RustScenarioD == <<R_impl, R_pub_fn_bar, R_fn_new, R_close>>

RustInputs == SeqsUpTo(RustLines, MaxRustLines) \cup {RustTestImpl, RustScenarioD}

----------------------------------------------------------------------------
(* solidity.py: SolidityOutlineExtractor *)

Sol_ContractAt(line, i) == KwNameAt(line, i, kw_contract)

Sol_InterfaceAt(line, i) == KwNameAt(line, i, kw_interface)

Sol_CONTRACT_PATTERN(line) == Search([i \in DOMAIN line |-> Sol_ContractAt(line, i)])

Sol_INTERFACE_PATTERN(line) == Search([i \in DOMAIN line |-> Sol_InterfaceAt(line, i)])

(* FUNCTION_PATTERN at position i: one of the four keywords, whitespace, an *)
(* optional word with optional whitespace after it, then an opening round  *)
(* or curly bracket.  None when it does not match, else Some(group 1),     *)
(* group 1 being None when the keyword is followed by the bracket          *)
Sol_FnAt(line, i) ==
    IF /\ At(line, i) \in {kw_function, kw_constructor, kw_fallback, kw_receive}
       /\ IsSpace(At(line, i + 1))
    THEN IF /\ IsWord(At(line, i + 2))
            /\ \/ At(line, i + 3) \in {LPAREN, LBRACE}
               \/ IsSpace(At(line, i + 3)) /\ At(line, i + 4) \in {LPAREN, LBRACE}
         THEN Some(Some(line[i + 2]))
         ELSE IF At(line, i + 2) \in {LPAREN, LBRACE} THEN Some(None)
         ELSE None
    ELSE None

Sol_FUNCTION_PATTERN(line) == Search([i \in DOMAIN line |-> Sol_FnAt(line, i)])

(* get_full_path(name): '.'.join(filter(None, current_path + [name])) *)
get_full_path(current_path, name) ==
    JoinWith(DOT, SelectSeq(current_path \o <<name>>, LAMBDA part : part # <<>>))

Sol_should_include_function(name) ==
    ~(name # <<>> /\ (StartsWithUnderscore(name) \/ name = kw_constructor))

Sol_init ==
    [functions |-> <<>>,
     current_contract |-> None,
     current_path |-> <<>>,
     seen_names |-> {}]

(* `for pattern in [CONTRACT_PATTERN, INTERFACE_PATTERN]`, left at the first match *)
Sol_scan_contract(st, line, n) ==
    LET contract_match == Sol_CONTRACT_PATTERN(line)
        interface_match == Sol_INTERFACE_PATTERN(line)
        match == IF contract_match # None THEN contract_match ELSE interface_match
    IN  IF match = None THEN st
        ELSE LET name == match[1]
                 st1 == [st EXCEPT !.current_contract = Some(name),
                                   !.current_path = <<name>>]
             IN  IF name \in st.seen_names THEN st1
                 ELSE [st1 EXCEPT
                         !.seen_names = @ \cup {name},
                         !.functions = Append(@,
                             FunctionInfo(name, n, None, None, None,
                                          FALSE, FALSE, "function"))]

(* `match = re.search(self.FUNCTION_PATTERN, line)` and its branch *)
Sol_scan_function(st, line, n) ==
    LET match == Sol_FUNCTION_PATTERN(line)
    IN  IF match = None THEN st
        ELSE LET name == IF match[1] # None THEN match[1][1] ELSE kw_fallback
                 full_name == get_full_path(st.current_path, name)
             IN  IF ~Sol_should_include_function(name) THEN st
                 ELSE IF full_name \in st.seen_names THEN st
                 ELSE [st EXCEPT
                         !.seen_names = @ \cup {full_name},
                         !.functions = Append(@,
                             FunctionInfo(full_name, n, None, None, None,
                                          FALSE, FALSE, "function"))]

(* one iteration of `for i, line in enumerate(lines)` *)
Sol_scan_line(st, lines, n) ==
    Sol_scan_function(Sol_scan_contract(st, lines[n], n), lines[n], n)

RECURSIVE Sol_scan(_, _, _)
Sol_scan(st, lines, n) ==
    IF n > Len(lines) THEN st
    ELSE Sol_scan(Sol_scan_line(st, lines, n), lines, n + 1)

(* extract_functions(content); lines == content.split('\n') *)
Sol_extract_functions(lines) ==
    TryExcept([functions |-> Sol_scan(Sol_init, lines, 1).functions,
               exc |-> FALSE])

----------------------------------------------------------------------------
(* Inputs of the Solidity extractor: lines of Solidity source *)

S_blank == <<>>
S_space == <<SP>>
S_close == <<RBRACE>>
S_contract == <<kw_contract, SP, id_Foo, SP, LBRACE>>
S_interface == <<kw_interface, SP, id_Bar, SP, LBRACE>>
S_function_bar == <<SP, kw_function, SP, id_bar, LPAREN, RPAREN, SP, kw_public, SP, LBRACE>>
S_function_new == <<kw_function, SP, id_new, SP, LPAREN, RPAREN, SP, LBRACE, RBRACE>>
S_function_h == <<kw_function, SP, id_h, LPAREN, RPAREN, SP, LBRACE>>
S_constructor == <<kw_constructor, LPAREN, RPAREN, SP, LBRACE>>
S_constructor_sp == <<kw_constructor, SP, LPAREN, RPAREN, SP, LBRACE>>
S_contract_one_line ==
    <<kw_contract, SP, id_Foo, SP, LBRACE, SP,
      kw_function, SP, id_bar, LPAREN, RPAREN, SP, kw_public, SP, LBRACE, RBRACE,
      SP, RBRACE>>

SolLines ==
    {S_blank, S_space, S_close, S_contract, S_interface, S_function_bar,
     S_function_new, S_function_h, S_constructor, S_constructor_sp,
     S_contract_one_line}

SolInputs == SeqsUpTo(SolLines, MaxSolLines)

----------------------------------------------------------------------------
(* python.py: PythonOutlineExtractor *)

(* A line of Python source is a record: its indentation, its kind and, by   *)
(* kind, the name, the formal arguments and the docstring it carries.       *)
(*   class  `class NAME:`              def (inline)  `def NAME(ARGS): BODY` *)
(*   def    `def NAME(ARGS):`          BODY is `pass` or a docstring        *)
(*   doc    a docstring statement      pass   `pass`                        *)
(*          (a string literal on one line; doc holds its lines of text)     *)
(*   deep   an assignment whose expression nests deeper than the visitor's  *)
(*          recursion allows, though the parser accepts it                  *)
(*   blank  a whitespace-only line                                          *)
PyLine(indent, kind, name, args, inline, doc) ==
    [indent |-> indent, kind |-> kind, name |-> name, args |-> args,
     inline |-> inline, doc |-> doc]

PyNode(type, name, lineno, value, body) ==
    [type |-> type, name |-> name, lineno |-> lineno, value |-> value, body |-> body]

PyIsHeader(l) == l.kind = "class" \/ (l.kind = "def" /\ ~l.inline)

RECURSIVE PyNextLine(_, _)
PyNextLine(lines, i) ==
    IF i > Len(lines) THEN i
    ELSE IF lines[i].kind = "blank" THEN PyNextLine(lines, i + 1)
    ELSE i

PyNodeType(l) ==
    CASE l.kind = "class" -> "ClassDef"
      [] l.kind = "def" -> "FunctionDef"
      [] l.kind = "doc" -> "Expr"
      [] l.kind = "pass" -> "Pass"
      [] l.kind = "deep" -> "Assign"

(* the body of a statement written on one line *)
PyInlineBody(l, j) ==
    IF l.kind = "def"
    THEN IF l.doc # None THEN <<PyNode("Expr", <<>>, j, l.doc, <<>>)>>
         ELSE <<PyNode("Pass", <<>>, j, None, <<>>)>>
    ELSE <<>>

PyParseError == [nodes |-> <<>>, next |-> 0, error |-> TRUE]

(* ast.parse on the statements of one block: the lines from i on that are  *)
(* indented by ind.  A deeper line where no block was opened, a header with *)
(* no deeper line after it, and a dedent to a level no open block has, are  *)
(* syntax errors.                                                           *)
RECURSIVE PyParseBlock(_, _, _)
PyParseBlock(lines, i, ind) ==
    LET j == PyNextLine(lines, i)
    IN  IF j > Len(lines) THEN [nodes |-> <<>>, next |-> j, error |-> FALSE]
        ELSE IF lines[j].indent < ind
             THEN [nodes |-> <<>>, next |-> j, error |-> FALSE]
        ELSE IF lines[j].indent > ind THEN PyParseError
        ELSE LET l == lines[j]
                 k == PyNextLine(lines, j + 1)
             IN  IF PyIsHeader(l)
                 THEN IF k > Len(lines) \/ lines[k].indent <= ind
                      THEN PyParseError
                      ELSE LET body == PyParseBlock(lines, k, lines[k].indent)
                               rest == PyParseBlock(lines, body.next, ind)
                           IN  IF body.error \/ rest.error THEN PyParseError
                               ELSE [nodes |-> <<PyNode(PyNodeType(l), l.name, j,
                                                      None, body.nodes)>>
                                                \o rest.nodes,
                                     next |-> rest.next,
                                     error |-> FALSE]
                 ELSE LET rest == PyParseBlock(lines, j + 1, ind)
                      IN  IF rest.error THEN PyParseError
                          ELSE [nodes |-> <<PyNode(PyNodeType(l), l.name, j,
                                                 IF l.kind = "doc" THEN l.doc ELSE None,
                                                 PyInlineBody(l, j))>>
                                           \o rest.nodes,
                                next |-> rest.next,
                                error |-> FALSE]

(* tree = ast.parse(content) *)
ast_parse(lines) ==
    LET module == PyParseBlock(lines, 1, 0)
    IN  [error |-> module.error,
         tree |-> PyNode("Module", <<>>, 0, None, module.nodes)]

(* str.strip() and str.lstrip() on a string *)
RECURSIVE LStripChars(_)
LStripChars(str) ==
    IF str # <<>> /\ Head(str) = " " THEN LStripChars(Tail(str)) ELSE str

RECURSIVE RStripChars(_)
RStripChars(str) ==
    IF str # <<>> /\ str[Len(str)] = " "
    THEN RStripChars(SubSeq(str, 1, Len(str) - 1))
    ELSE str

StripChars(str) == RStripChars(LStripChars(str))

Indentation(str) == Len(str) - Len(LStripChars(str))

RECURSIVE DropLeadingEmpty(_)
DropLeadingEmpty(ls) ==
    IF ls # <<>> /\ Head(ls) = <<>> THEN DropLeadingEmpty(Tail(ls)) ELSE ls

RECURSIVE DropTrailingEmpty(_)
DropTrailingEmpty(ls) ==
    IF ls # <<>> /\ ls[Len(ls)] = <<>>
    THEN DropTrailingEmpty(SubSeq(ls, 1, Len(ls) - 1))
    ELSE ls

(* inspect.cleandoc, which ast.get_docstring applies: the first line loses *)
(* its leading whitespace, the other lines their common margin, and empty  *)
(* lines at both ends are dropped                                          *)
cleandoc(doc) ==
    LET indents == {Indentation(doc[i]) : i \in {k \in 2..Len(doc) : LStripChars(doc[k]) # <<>>}}
        margin == IF indents = {} THEN 0 ELSE Min(indents)
        ls == [i \in DOMAIN doc |->
                 IF i = 1 THEN LStripChars(doc[i])
                 ELSE SubSeq(doc[i], margin + 1, Len(doc[i]))]
    IN  DropLeadingEmpty(DropTrailingEmpty(ls))

(* ast.get_docstring(node): the cleaned string that is the first statement *)
(* of the body, as a sequence of lines                                     *)
ast_get_docstring(node) ==
    IF node.type \in {"FunctionDef", "ClassDef"}
       /\ node.body # <<>>
       /\ node.body[1].type = "Expr"
    THEN Some(cleandoc(node.body[1].value[1]))
    ELSE None

(* get_docstring(node): the first line of the docstring, stripped; None    *)
(* when there is no docstring or it is the empty string                    *)
Py_get_docstring(node) ==
    LET docstring == ast_get_docstring(node)
    IN  IF docstring = None \/ docstring[1] = <<>> THEN None
        ELSE Some(StripChars(docstring[1][1]))

(* the filter without the fixture names *)
Py_should_include_function_private_only(name) == ~StartsWithUnderscore(name)

Py_should_include_function(name) ==
    ~(\/ StartsWithUnderscore(name)
      \/ name \in {id_setUp, id_tearDown, id_setUpClass, id_tearDownClass})

Py_init ==
    [functions |-> <<>>,
     current_class |-> None,
     current_path |-> <<>>,
     seen_names |-> {},
     exc |-> FALSE]

Py_add_function(st, name, node) ==
    IF name = <<>> THEN st
    ELSE IF ~Py_should_include_function(name) THEN st
    ELSE LET full_name == get_full_path(st.current_path, name)
         IN  IF full_name \in st.seen_names THEN st
             ELSE [st EXCEPT
                     !.seen_names = @ \cup {full_name},
                     !.functions = Append(@,
                         FunctionInfo(full_name, node.lineno, None, None,
                                      Py_get_docstring(node),
                                      FALSE, FALSE, "function"))]

RECURSIVE Py_visit(_, _)
RECURSIVE Py_visit_all(_, _)

(* NodeVisitor.generic_visit: the child statements in source order; an     *)
(* exception raised under one child ends the walk                          *)
Py_visit_all(st, nodes) ==
    IF nodes = <<>> \/ st.exc THEN st
    ELSE Py_visit_all(Py_visit(st, Head(nodes)), Tail(nodes))

Py_generic_visit(st, node) == Py_visit_all(st, node.body)

Py_visit_ClassDef(st, node) ==
    LET prev_class == st.current_class
        prev_path == st.current_path
        st1 == [st EXCEPT !.current_class = Some(node.name),
                          !.current_path = Append(@, node.name)]
        st2 == Py_generic_visit(Py_add_function(st1, node.name, node), node)
    IN  [st2 EXCEPT !.current_class = prev_class, !.current_path = prev_path]

Py_visit_FunctionDef(st, node) ==
    Py_generic_visit(Py_add_function(st, node.name, node), node)

(* NodeVisitor.visit: dispatch on the node's type; the visit of the deep   *)
(* expression raises RecursionError                                        *)
Py_visit(st, node) ==
    CASE node.type = "ClassDef" -> Py_visit_ClassDef(st, node)
      [] node.type = "FunctionDef" -> Py_visit_FunctionDef(st, node)
      [] node.type = "Assign" -> [st EXCEPT !.exc = TRUE]
      [] OTHER -> Py_generic_visit(st, node)

(* extract_functions(content) *)
Py_extract_functions(lines) ==
    LET parsed == ast_parse(lines)
        walked == Py_visit(Py_init, parsed.tree)
    IN  TryExcept(IF parsed.error
                  THEN [functions |-> <<>>, exc |-> TRUE]
                  ELSE [functions |-> walked.functions, exc |-> walked.exc])

----------------------------------------------------------------------------
(* Inputs of the Python extractor: lines of Python source *)

MaxPyIndent == 2

txt_say_hello == <<"S", "a", "y", " ", "h", "e", "l", "l", "o">>
txt_d_indented == <<" ", " ", "d">>

(* """Say hello""" *)
PyDocOneLine == <<txt_say_hello>>

(* a docstring that opens with a line break: its text starts on line two *)
PyDocLineBreak == <<<<>>, txt_d_indented, txt_c>>

PyStatements(indent) ==
    {PyLine(indent, "class", id_Foo, <<>>, FALSE, None),
     PyLine(indent, "class", id_P, <<>>, FALSE, None),
     PyLine(indent, "def", id_bar, <<id_a, id_b>>, TRUE, None),
     PyLine(indent, "def", id_new, <<id_self>>, FALSE, None),
     PyLine(indent, "def", id_new, <<id_self>>, TRUE, Some(PyDocOneLine)),
     PyLine(indent, "def", id_h, <<id_self>>, TRUE, None),
     PyLine(indent, "def", id_setUp, <<id_self>>, TRUE, None),
     PyLine(indent, "doc", <<>>, <<>>, FALSE, Some(PyDocLineBreak)),
     PyLine(indent, "pass", <<>>, <<>>, FALSE, None),
     PyLine(indent, "deep", <<>>, <<>>, FALSE, None)}

PyBlank == PyLine(0, "blank", <<>>, <<>>, FALSE, None)

PyLines == {PyBlank} \cup UNION {PyStatements(d) : d \in 0..MaxPyIndent}

(* the texts of at most MaxPyLines lines in which line i is indented by at *)
(* most i levels: the first line by one level at most                      *)
PyInputs ==
    {ls \in SeqsUpTo(PyLines, MaxPyLines) : \A i \in DOMAIN ls : ls[i].indent <= i}

----------------------------------------------------------------------------
(* javascript.py: JavaScriptOutlineExtractor *)

(* A JavaScript text is a record: whether esprima accepts it, and its       *)
(* top-level statements, one per line:                                      *)
(*   function  `function NAME() {}`        arrow  `const NAME = () => {};`  *)
(*   class     `class NAME { M() {} ... }` expr   `NAME;`                   *)
(*   export    `export function NAME() {}`                                  *)
(*   export_default  `export default function NAME() {}`                    *)
JsStatement(kind, name, methods) == [kind |-> kind, name |-> name, methods |-> methods]

(* A node of esprima's tree.  esprima builds its nodes as objects of its   *)
(* class Node, which is not a dict: is_dict is what isinstance(node, dict)  *)
(* answers.                                                                 *)
JsNode(type, name, line, declarations, children) ==
    [type |-> type, name |-> name, line |-> line,
     declarations |-> declarations, children |-> children, is_dict |-> FALSE]

JsStatementNode(stmt, line) ==
    CASE stmt.kind = "function" ->
           JsNode("FunctionDeclaration", stmt.name, line, <<>>, <<>>)
      [] stmt.kind = "arrow" ->
           JsNode("VariableDeclaration", <<>>, line,
                  <<JsNode("ArrowFunctionExpression", stmt.name, line, <<>>, <<>>)>>,
                  <<>>)
      [] stmt.kind = "class" ->
           JsNode("ClassDeclaration", stmt.name, line, <<>>,
                  <<JsNode("ClassBody", <<>>, line, <<>>,
                           [i \in DOMAIN stmt.methods |->
                              JsNode("MethodDefinition", stmt.methods[i], line,
                                     <<>>, <<>>)])>>)
      [] stmt.kind = "expr" ->
           JsNode("ExpressionStatement", <<>>, line, <<>>, <<>>)
      [] stmt.kind = "export" ->
           JsNode("ExportNamedDeclaration", <<>>, line, <<>>,
                  <<JsNode("FunctionDeclaration", stmt.name, line, <<>>, <<>>)>>)
      [] stmt.kind = "export_default" ->
           JsNode("ExportDefaultDeclaration", <<>>, line, <<>>,
                  <<JsNode("FunctionDeclaration", stmt.name, line, <<>>, <<>>)>>)

(* an `export` statement: module syntax *)
JsIsModuleSyntax(stmt) == stmt.kind \in {"export", "export_default"}

(* esprima.parseScript(content, {...}): raises on a text it does not       *)
(* accept (a text with module syntax is not a script), else returns the    *)
(* Program node                                                            *)
esprima_parseScript(text) ==
    [error |-> \/ ~text.syntax_ok
               \/ \E i \in DOMAIN text.body : JsIsModuleSyntax(text.body[i]),
     ast |-> JsNode("Program", <<>>, 1, <<>>,
                    [i \in DOMAIN text.body |-> JsStatementNode(text.body[i], i)])]

id_use == <<"u", "s", "e">>
id_useState == <<"u", "s", "e", "S", "t", "a", "t", "e">>
id_render == <<"r", "e", "n", "d", "e", "r">>
id_constructor == kw_constructor

(* the names add_function skips *)
Js_skipped_names ==
    {<<"g", "e", "t", "S", "t", "a", "t", "e">>,
     <<"g", "e", "t", "C", "o", "n", "t", "e", "x", "t">>,
     <<"s", "e", "n", "d">>,
     <<"t", "r", "a", "n", "s", "i", "t", "i", "o", "n">>,
     <<"h", "a", "n", "d", "l", "e", "E", "r", "r", "o", "r">>,
     <<"c", "l", "e", "a", "n", "u", "p">>,
     <<"c", "o", "m", "p", "o", "n", "e", "n", "t", "D", "i", "d", "M", "o", "u", "n", "t">>,
     <<"c", "o", "m", "p", "o", "n", "e", "n", "t", "D", "i", "d", "U", "p", "d", "a", "t", "e">>,
     <<"c", "o", "m", "p", "o", "n", "e", "n", "t", "W", "i", "l", "l", "U", "n", "m", "o", "u", "n", "t">>,
     <<"r", "e", "n", "d", "e", "r">>,
     <<"m", "u", "t", "a", "t", "e">>,
     <<"m", "u", "t", "a", "t", "e", "A", "s", "y", "n", "c">>,
     <<"r", "e", "s", "e", "t">>,
     <<"o", "n", "M", "u", "t", "a", "t", "e">>,
     <<"o", "n", "E", "r", "r", "o", "r">>,
     <<"o", "n", "S", "e", "t", "t", "l", "e", "d">>,
     <<"o", "n", "S", "u", "c", "c", "e", "s", "s">>,
     <<"q", "u", "e", "r", "y", "F", "n">>,
     <<"m", "u", "t", "a", "t", "i", "o", "n", "F", "n">>,
     <<"b", "a", "c", "k", "o", "f", "f">>,
     <<"s", "h", "o", "u", "l", "d", "R", "e", "t", "r", "y">>}

(* str.startswith(prefix) *)
StartsWith(str, prefix) ==
    Len(str) >= Len(prefix) /\ SubSeq(str, 1, Len(prefix)) = prefix

Js_init ==
    [functions |-> <<>>,
     current_class |-> None,
     current_path |-> <<>>,
     seen_names |-> {},
     exc |-> FALSE]

Js_add_function(st, name, node) ==
    IF name = <<>> THEN st
    ELSE IF \/ StartsWithUnderscore(name)
            \/ StartsWith(name, id_use)
            \/ name \in Js_skipped_names
         THEN st
    ELSE LET full_name == get_full_path(st.current_path, name)
         IN  IF full_name \in st.seen_names THEN st
             ELSE [st EXCEPT
                     !.seen_names = @ \cup {full_name},
                     !.functions = Append(@,
                         FunctionInfo(full_name, node.line, None, None, None,
                                      FALSE, FALSE, "function"))]

RECURSIVE Js_add_declarators(_, _)
Js_add_declarators(st, declarators) ==
    IF declarators = <<>> THEN st
    ELSE LET d == Head(declarators)
             st1 == IF d.type \in {"ArrowFunctionExpression", "FunctionExpression"}
                       /\ d.name # <<>>
                    THEN Js_add_function(
                             [st EXCEPT !.current_path = Append(@, d.name)],
                             d.name, d)
                    ELSE st
         IN  Js_add_declarators(st1, Tail(declarators))

(* the if/elif chain of visit_node on the node's type *)
Js_visit_type(st, node) ==
    CASE node.type = "ClassDeclaration" /\ node.name # <<>> ->
           Js_add_function([st EXCEPT !.current_class = Some(node.name),
                                      !.current_path = Append(@, node.name)],
                           node.name, node)
      [] node.type = "MethodDefinition" /\ node.name # <<>> ->
           Js_add_function(IF st.current_class # None
                           THEN [st EXCEPT !.current_path = Append(@, node.name)]
                           ELSE st,
                           node.name, node)
      [] node.type = "FunctionDeclaration" /\ node.name # <<>> ->
           Js_add_function([st EXCEPT !.current_path = Append(@, node.name)],
                           node.name, node)
      [] node.type = "VariableDeclaration" ->
           Js_add_declarators(st, node.declarations)
      [] OTHER -> st

(* isinstance(item, dict) and item.get('type') *)
Js_is_visited(item) == item.is_dict /\ item.type # <<>>

RECURSIVE Js_visit_node(_, _)
RECURSIVE Js_visit_children(_, _)

Js_visit_children(st, items) ==
    IF items = <<>> THEN st
    ELSE Js_visit_children(IF Js_is_visited(Head(items))
                           THEN Js_visit_node(st, Head(items))
                           ELSE st,
                           Tail(items))

(* visit_node(node): the branch of the node's type, then the children that *)
(* are dicts; the class and the path are restored on the way out           *)
Js_visit_node(st, node) ==
    LET prev_class == st.current_class
        prev_path == st.current_path
        st1 == Js_visit_children(Js_visit_type(st, node),
                                 node.declarations \o node.children)
    IN  [st1 EXCEPT !.current_class = prev_class, !.current_path = prev_path]

(* extract_functions(content) *)
Js_extract_functions(text) ==
    LET parsed == esprima_parseScript(text)
        walked == Js_visit_node(Js_init, parsed.ast)
    IN  TryExcept(IF parsed.error
                  THEN [functions |-> <<>>, exc |-> TRUE]
                  ELSE [functions |-> walked.functions, exc |-> walked.exc])

----------------------------------------------------------------------------
(* Inputs of the JavaScript extractor *)

JsStatements ==
    {JsStatement("function", id_bar, <<>>),
     JsStatement("function", id_useState, <<>>),
     JsStatement("arrow", id_new, <<>>),
     JsStatement("class", id_Foo, <<id_constructor, id_bar>>),
     JsStatement("class", id_Bar, <<id_render>>),
     JsStatement("expr", id_a, <<>>),
     JsStatement("export", id_a, <<>>),
     JsStatement("export_default", id_b, <<>>)}

JsInputs ==
    {[syntax_ok |-> ok, body |-> body] :
        ok \in BOOLEAN, body \in SeqsUpTo(JsStatements, MaxJsNodes)}

----------------------------------------------------------------------------
(* The extraction of one file: the content is chosen at the start, then the *)
(* extractor of its language is called once.                                *)

Langs == {"javascript", "python", "solidity", "rust"}

Inputs(l) ==
    CASE l = "rust" -> RustInputs
      [] l = "solidity" -> SolInputs
      [] l = "python" -> PyInputs
      [] l = "javascript" -> JsInputs

Init ==
    /\ lang \in Langs
    /\ content \in Inputs(lang)
    /\ pc = "ready"
    /\ functions = <<>>
    /\ raised = FALSE
    /\ calls = <<>>
    /\ left = <<>>
    /\ TreeIdle
    /\ FilesIdle
    /\ IoIdle

Return(result) ==
    /\ functions' = result.functions
    /\ raised' = result.raised
    /\ pc' = "done"
    /\ UNCHANGED <<lang, content, callVars, treeVars, fileVars, ioVars>>

ExtractRust ==
    /\ pc = "ready"
    /\ lang = "rust"
    /\ Return(Rust_extract_functions(content))

ExtractSolidity ==
    /\ pc = "ready"
    /\ lang = "solidity"
    /\ Return(Sol_extract_functions(content))

ExtractPython ==
    /\ pc = "ready"
    /\ lang = "python"
    /\ Return(Py_extract_functions(content))

ExtractJavaScript ==
    /\ pc = "ready"
    /\ lang = "javascript"
    /\ Return(Js_extract_functions(content))

Next == ExtractJavaScript \/ ExtractPython \/ ExtractSolidity \/ ExtractRust

Spec == Init /\ [][Next]_vars

----------------------------------------------------------------------------
(* What the source text declares, read off the text itself: the shapes of  *)
(* whole lines and the indentation, not the extractors' patterns.          *)

Done == pc = "done"

Names == [i \in DOMAIN functions |-> functions[i].name]

IsPrefix(s, t) == Len(s) <= Len(t) /\ SubSeq(t, 1, Len(s)) = s

Qualified(path, name) == JoinWith(DOT, path \o <<name>>)

(* the part of a dotted name after its last dot *)
RECURSIVE LastSegment(_)
LastSegment(name) ==
    IF \E i \in DOMAIN name : name[i] = "."
    THEN LastSegment(SubSeq(name, Min({i \in DOMAIN name : name[i] = "."}) + 1, Len(name)))
    ELSE name

(* a name the noise filters of the extractors leave alone *)
PublicName(name) ==
    /\ name # <<>>
    /\ name[1] # "_"
    /\ name \notin {id_setUp, id_tearDown, id_setUpClass, id_tearDownClass}
    /\ name \notin {id_useState, id_render, id_constructor}

WithoutPub(l) ==
    IF Len(l) >= 2 /\ l[1] = kw_pub /\ l[2] = SP THEN SubSeq(l, 3, Len(l)) ELSE l

(* `impl T {`, `impl X for T {`, `[pub] struct|enum|trait T {`: Some(T) *)
RustHeaderName(line) ==
    LET l == WithoutPub(Strip(line))
    IN  IF Len(l) = 5 /\ l[1] \in {kw_impl, kw_struct, kw_enum, kw_trait}
           /\ l[2] = SP /\ IsWord(l[3]) /\ l[4] = SP /\ l[5] = LBRACE
        THEN Some(l[3])
        ELSE IF Len(l) = 9 /\ l[1] = kw_impl /\ l[2] = SP /\ IsWord(l[3])
                /\ l[4] = SP /\ l[5] = kw_for /\ l[6] = SP /\ IsWord(l[7])
                /\ l[8] = SP /\ l[9] = LBRACE
        THEN Some(l[7])
        ELSE None

RustImplName(line) ==
    IF Strip(line) # <<>> /\ Head(Strip(line)) = kw_impl THEN RustHeaderName(line)
    ELSE None

(* `[pub] fn f(...` at the start of the line: Some(f) *)
RustFnName(line) ==
    LET l == WithoutPub(Strip(line))
    IN  IF Len(l) >= 4 /\ l[1] = kw_fn /\ l[2] = SP /\ IsWord(l[3]) /\ l[4] = LPAREN
        THEN Some(l[3])
        ELSE None

RustHasBlockComment(lines) ==
    \E i \in DOMAIN lines : \E k \in DOMAIN lines[i] : lines[i][k] \in {OPENC, CLOSEC}

(* `contract C {`, `interface C {`: Some(C) *)
SolHeaderName(line) ==
    LET l == Strip(line)
    IN  IF Len(l) = 5 /\ l[1] \in {kw_contract, kw_interface}
           /\ l[2] = SP /\ IsWord(l[3]) /\ l[4] = SP /\ l[5] = LBRACE
        THEN Some(l[3])
        ELSE None

(* `function f(...` at the start of the line: Some(f) *)
SolFunctionName(line) ==
    LET l == Strip(line)
    IN  IF Len(l) >= 4 /\ l[1] = kw_function /\ l[2] = SP /\ IsWord(l[3])
           /\ (l[4] = LPAREN \/ (l[4] = SP /\ At(l, 5) = LPAREN))
        THEN Some(l[3])
        ELSE None

(* the lines that neither declare nor open anything *)
FillerLine(line) == Strip(line) \in {<<>>, <<RBRACE>>}

(* the class headers whose block holds line j, outermost first *)
PyEnclosingClassLines(lines, j) ==
    {i \in 1..(j - 1) :
        /\ lines[i].kind = "class"
        /\ \A k \in (i + 1)..j :
             lines[k].kind # "blank" => lines[k].indent > lines[i].indent}

RECURSIVE SortedSeq(_)
SortedSeq(S) == IF S = {} THEN <<>> ELSE <<Min(S)>> \o SortedSeq(S \ {Min(S)})

PyEnclosingClasses(lines, j) ==
    LET idx == SortedSeq(PyEnclosingClassLines(lines, j))
    IN  [k \in DOMAIN idx |-> lines[idx[k]].name]

(* the visitor reaches line j: the text parses and no statement before it  *)
(* breaks the walk off                                                     *)
PyReached(lines, j) ==
    /\ ~ast_parse(lines).error
    /\ \A k \in 1..(j - 1) : lines[k].kind # "deep"

(* the text of the first n lines (statements, for JavaScript) *)
Truncated(l, text, n) ==
    IF l = "javascript"
    THEN [text EXCEPT !.body = SubSeq(text.body, 1, n)]
    ELSE SubSeq(text, 1, n)

TextLength(l, text) == IF l = "javascript" THEN Len(text.body) ELSE Len(text)

ParseFails(l, text) ==
    CASE l = "python" -> ast_parse(text).error
      [] l = "javascript" -> esprima_parseScript(text).error
      [] OTHER -> FALSE

BlankText(l, text) ==
    CASE l = "python" -> \A i \in DOMAIN text : text[i].kind = "blank"
      [] l = "javascript" -> text.syntax_ok /\ text.body = <<>>
      [] OTHER -> \A i \in DOMAIN text : Strip(text[i]) = <<>>

extract_functions(l, text) ==
    CASE l = "javascript" -> Js_extract_functions(text)
      [] l = "python" -> Py_extract_functions(text)
      [] l = "solidity" -> Sol_extract_functions(text)
      [] l = "rust" -> Rust_extract_functions(text)

----------------------------------------------------------------------------
(* C1: whatever the text, extract_functions returns a list and lets no     *)
(* exception out; the list is empty when the parser rejects the text and   *)
(* when the text is empty or only whitespace.                              *)
C1_NeverRaises ==
    Done =>
      /\ ~raised
      /\ DOMAIN functions = 1..Len(functions)
      /\ ParseFails(lang, content) => functions = <<>>
      /\ BlankText(lang, content) => functions = <<>>

(* a text the Python parser rejects has been extracted *)
C1_Witness ==
    /\ Done
    /\ lang = "python"
    /\ content # <<>>
    /\ ParseFails(lang, content)

(* C2: no two Declarations of one returned list have the same name. *)
C2_UniqueNames ==
    \A i, j \in DOMAIN functions :
        i # j => functions[i].name # functions[j].name

(* a Rust text that declares the same fn on two lines has been extracted *)
C2_Witness ==
    /\ Done
    /\ lang = "rust"
    /\ \E i, j \in DOMAIN content :
         /\ i < j
         /\ RustFnName(content[i]) # None
         /\ RustFnName(content[i]) = RustFnName(content[j])
         /\ \E k \in DOMAIN functions :
              LastSegment(functions[k].name) = RustFnName(content[i])[1]

(* C3: the returned list is in encounter order: its line numbers never     *)
(* decrease, and what the extractor returns for the first n lines of the   *)
(* text stays, unchanged and in place, at the head of what it returns for  *)
(* the whole text, so a name met again keeps the line and the comment of   *)
(* its first occurrence.                                                   *)
C3_EncounterOrder ==
    Done =>
      /\ \A i, j \in DOMAIN functions :
           i < j => functions[i].line_number <= functions[j].line_number
      /\ ~ParseFails(lang, content) =>
           \A n \in 0..TextLength(lang, content) :
              ~ParseFails(lang, Truncated(lang, content, n)) =>
                 IsPrefix(extract_functions(lang, Truncated(lang, content, n)).functions,
                          functions)

(* a Rust fn met twice, the first time under a doc comment, the second     *)
(* time without: the record kept is the one of the first line              *)
C3_Witness ==
    /\ Done
    /\ lang = "rust"
    /\ content = <<R_doc, R_pub_fn_bar, R_fn_bar_c>>
    /\ Len(functions) = 1
    /\ functions[1].line_number = 2
    /\ functions[1].leading_comment = Some(txt_d)

(* the headers (class or def) whose block holds line j *)
PyEnclosingHeaderLines(lines, j) ==
    {i \in 1..(j - 1) :
        /\ PyIsHeader(lines[i])
        /\ \A k \in (i + 1)..j :
             lines[k].kind # "blank" => lines[k].indent > lines[i].indent}

(* line j declares a method: a def whose enclosing blocks are all classes *)
PyIsMethod(lines, j) ==
    /\ lines[j].kind = "def"
    /\ PyEnclosingClassLines(lines, j) # {}
    /\ PyEnclosingHeaderLines(lines, j) = PyEnclosingClassLines(lines, j)

----------------------------------------------------------------------------
(* C4: a method declared inside a container is named Container.method, and *)
(* Outer.Inner.method when the container is itself inside a container; the *)
(* statement is made for the names the noise filters leave alone.          *)
C4_JavaScript ==
    (lang = "javascript" /\ content.syntax_ok) =>
        \A i \in DOMAIN content.body :
            content.body[i].kind = "class" =>
                \A k \in DOMAIN content.body[i].methods :
                    PublicName(content.body[i].methods[k]) =>
                        \E d \in DOMAIN functions :
                            functions[d].name =
                                Qualified(<<content.body[i].name>>,
                                          content.body[i].methods[k])

C4_Python ==
    lang = "python" =>
        \A j \in DOMAIN content :
            (PyIsMethod(content, j) /\ PublicName(content[j].name)
             /\ PyReached(content, j)) =>
                \E d \in DOMAIN functions :
                    functions[d].name =
                        Qualified(PyEnclosingClasses(content, j), content[j].name)

C4_Rust ==
    (lang = "rust" /\ ~RustHasBlockComment(content)) =>
        \A i \in DOMAIN content :
            (/\ i + 1 \in DOMAIN content
             /\ RustHeaderName(content[i]) # None
             /\ RustFnName(content[i + 1]) # None
             /\ PublicName(RustFnName(content[i + 1])[1])) =>
                \E d \in DOMAIN functions :
                    functions[d].name =
                        Qualified(RustHeaderName(content[i]), RustFnName(content[i + 1])[1])

C4_Solidity ==
    lang = "solidity" =>
        \A i \in DOMAIN content :
            (/\ i + 1 \in DOMAIN content
             /\ SolHeaderName(content[i]) # None
             /\ SolFunctionName(content[i + 1]) # None
             /\ PublicName(SolFunctionName(content[i + 1])[1])) =>
                \E d \in DOMAIN functions :
                    functions[d].name =
                        Qualified(SolHeaderName(content[i]),
                                  SolFunctionName(content[i + 1])[1])

C4_ContainerMethodName ==
    Done => C4_JavaScript /\ C4_Python /\ C4_Rust /\ C4_Solidity

(* C5: a text that holds one top-level function declaration and nothing    *)
(* else yields one Declaration, of that name and of kind function.         *)
C5_IsTheFunction(name) ==
    /\ Len(functions) = 1
    /\ functions[1].name = name
    /\ functions[1].node_type = "function"

C5_JavaScript ==
    (/\ lang = "javascript"
     /\ content.syntax_ok
     /\ Len(content.body) = 1
     /\ content.body[1].kind \in {"function", "arrow"}
     /\ PublicName(content.body[1].name)) =>
        C5_IsTheFunction(content.body[1].name)

C5_Python ==
    lang = "python" =>
        \A j \in DOMAIN content :
            (/\ content[j].kind = "def"
             /\ content[j].inline
             /\ content[j].indent = 0
             /\ PublicName(content[j].name)
             /\ \A k \in DOMAIN content \ {j} : content[k].kind = "blank") =>
                C5_IsTheFunction(content[j].name)

C5_Rust ==
    lang = "rust" =>
        \A j \in DOMAIN content :
            (/\ RustFnName(content[j]) # None
             /\ PublicName(RustFnName(content[j])[1])
             /\ \A k \in DOMAIN content \ {j} : FillerLine(content[k])) =>
                C5_IsTheFunction(RustFnName(content[j])[1])

C5_Solidity ==
    lang = "solidity" =>
        \A j \in DOMAIN content :
            (/\ SolFunctionName(content[j]) # None
             /\ PublicName(SolFunctionName(content[j])[1])
             /\ \A k \in DOMAIN content \ {j} : FillerLine(content[k])) =>
                C5_IsTheFunction(SolFunctionName(content[j])[1])

C5_SingleFunction ==
    Done => C5_JavaScript /\ C5_Python /\ C5_Rust /\ C5_Solidity

(* C6: a Python class C with one public method m yields two Declarations:  *)
(* C of kind class, then C.m of kind method, whose leading_comment is the  *)
(* first line of the docstring of m.                                       *)
C6_ClassWithMethod ==
    (/\ Done
     /\ lang = "python"
     /\ Len(content) = 2
     /\ content[1].kind = "class" /\ content[1].indent = 0
     /\ PublicName(content[1].name)
     /\ content[2].kind = "def" /\ content[2].inline /\ content[2].indent > 0
     /\ PublicName(content[2].name)) =>
        /\ Len(functions) = 2
        /\ functions[1].name = content[1].name
        /\ functions[1].node_type = "class"
        /\ functions[2].name = Qualified(<<content[1].name>>, content[2].name)
        /\ functions[2].node_type = "method"
        /\ content[2].doc # None =>
             functions[2].leading_comment = Some(StripChars(content[2].doc[1][1]))

(* C7: the parameters of the Declaration of a Python def are the names of  *)
(* its formal arguments, joined by a comma and a space, in their order.    *)
C7_Parameters ==
    (Done /\ lang = "python") =>
        \A d \in DOMAIN functions :
            LET l == content[functions[d].line_number]
            IN  (l.kind = "def" /\ l.args # <<>>) =>
                    functions[d].parameters = Some(JoinWith(<<",", " ">>, l.args))

(* C8: the Python extractor emits no def whose own name starts with an     *)
(* underscore or is setUp, tearDown, setUpClass or tearDownClass, at any   *)
(* depth; every other def the walk reaches is in the list under its        *)
(* qualified name.                                                         *)
C8_PythonNameFilter ==
    (Done /\ lang = "python") =>
        \A j \in DOMAIN content :
            content[j].kind = "def" =>
                IF \/ content[j].name[1] = "_"
                   \/ content[j].name \in
                        {id_setUp, id_tearDown, id_setUpClass, id_tearDownClass}
                THEN \A d \in DOMAIN functions : functions[d].line_number # j
                ELSE PyReached(content, j) =>
                        \E d \in DOMAIN functions :
                            /\ functions[d].name =
                                 Qualified(PyEnclosingClasses(content, j),
                                           content[j].name)
                            /\ functions[d].line_number <= j

(* a class that holds a fixture method and a public one has been walked *)
C8_Witness ==
    /\ Done
    /\ lang = "python"
    /\ \E i, j \in DOMAIN content :
         /\ content[i].kind = "def" /\ content[i].name = id_setUp
         /\ content[i].indent > 0
         /\ PyReached(content, i)
         /\ content[j].kind = "def" /\ PublicName(content[j].name)
         /\ \E d \in DOMAIN functions : functions[d].line_number = j

C10_ImplFns ==
    (Done /\ lang = "rust" /\ ~RustHasBlockComment(content)) =>
        \A i \in DOMAIN content :
            RustImplName(content[i]) # None =>
                /\ \A d \in DOMAIN functions : functions[d].line_number # i
                /\ \A j \in (i + 1)..Len(content) :
                     (/\ \A k \in (i + 1)..j :
                            RustFnName(content[k]) # None \/ Strip(content[k]) = <<>>
                      /\ RustFnName(content[j]) # None
                      /\ ~StartsWithUnderscore(RustFnName(content[j])[1])) =>
                         Cardinality({d \in DOMAIN functions :
                                        functions[d].name =
                                          Qualified(RustImplName(content[i]),
                                                    RustFnName(content[j])[1])}) = 1

(* C11: a JavaScript function declared with `export` yields one            *)
(* Declaration with is_export true and is_default_export false, one        *)
(* declared with `export default` yields both flags true, and a class      *)
(* method yields is_export false.                                          *)
C11_ExportFlags ==
    (Done /\ lang = "javascript" /\ content.syntax_ok) =>
        /\ \A i \in DOMAIN content.body :
             content.body[i].kind \in {"export", "export_default"} =>
                \E d \in DOMAIN functions :
                    /\ functions[d].name = content.body[i].name
                    /\ functions[d].is_export
                    /\ functions[d].is_default_export =
                         (content.body[i].kind = "export_default")
        /\ \A d \in DOMAIN functions :
             LastSegment(functions[d].name) # functions[d].name =>
                ~functions[d].is_export

----------------------------------------------------------------------------
(* Several calls of extract_functions on one extractor instance.  Each     *)
(* extractor keeps functions, current_path and seen_names in locals of     *)
(* extract_functions; `left` is what the previous call ended with.         *)

MaxCalls == 2
MaxCallLines == 2

(* the locals rebound to what the previous call left in them *)
NewLocals_kept(left_by_previous, fresh) ==
    IF left_by_previous = None THEN fresh
    ELSE [fresh EXCEPT !.seen_names = left_by_previous[1].seen_names,
                       !.current_path = left_by_previous[1].current_path]

(* the first statements of extract_functions bind the locals anew *)
NewLocals(left_by_previous, fresh) == fresh

Rust_call(left_by_previous, lines) ==
    LET final == Rust_scan(NewLocals(left_by_previous, Rust_init), lines, 1)
    IN  [result |-> TryExcept([functions |-> final.functions, exc |-> FALSE]),
         left |-> Some(final)]

Sol_call(left_by_previous, lines) ==
    LET final == Sol_scan(NewLocals(left_by_previous, Sol_init), lines, 1)
    IN  [result |-> TryExcept([functions |-> final.functions, exc |-> FALSE]),
         left |-> Some(final)]

Py_call(left_by_previous, lines) ==
    LET st0 == NewLocals(left_by_previous, Py_init)
        parsed == ast_parse(lines)
        walked == Py_visit(st0, parsed.tree)
    IN  IF parsed.error
        THEN [result |-> TryExcept([functions |-> st0.functions, exc |-> TRUE]),
              left |-> Some(st0)]
        ELSE [result |-> TryExcept([functions |-> walked.functions,
                                    exc |-> walked.exc]),
              left |-> Some(walked)]

Js_call(left_by_previous, text) ==
    LET st0 == NewLocals(left_by_previous, Js_init)
        parsed == esprima_parseScript(text)
        walked == Js_visit_node(st0, parsed.ast)
    IN  IF parsed.error
        THEN [result |-> TryExcept([functions |-> st0.functions, exc |-> TRUE]),
              left |-> Some(st0)]
        ELSE [result |-> TryExcept([functions |-> walked.functions,
                                    exc |-> walked.exc]),
              left |-> Some(walked)]

(* the texts handed to the instance *)
CallInputs(l) ==
    CASE l = "rust" ->
           SeqsUpTo({R_impl, R_struct, R_pub_fn_bar, R_fn_new, R_close}, MaxCallLines)
      [] l = "solidity" ->
           SeqsUpTo({S_contract, S_function_bar, S_function_new, S_close}, MaxCallLines)
      [] l = "python" ->
           {ls \in PyInputs :
              /\ Len(ls) <= MaxCallLines
              /\ \A i \in DOMAIN ls :
                   /\ ls[i].kind \in {"class", "def", "pass"}
                   /\ ls[i].name \in {<<>>, id_Foo, id_bar, id_new}
                   /\ ls[i].indent <= 1}
      [] l = "javascript" ->
           {t \in JsInputs : Len(t.body) <= 1}

CallsInit ==
    /\ lang \in Langs
    /\ content \in CallInputs(lang)
    /\ pc = "ready"
    /\ functions = <<>>
    /\ raised = FALSE
    /\ calls = <<>>
    /\ left = None
    /\ TreeIdle
    /\ FilesIdle
    /\ IoIdle

Called(call) ==
    /\ functions' = call.result.functions
    /\ raised' = call.result.raised
    /\ pc' = "done"
    /\ calls' = Append(calls, [content |-> content,
                               functions |-> call.result.functions])
    /\ left' = call.left
    /\ UNCHANGED <<lang, content, treeVars, fileVars, ioVars>>

CallRust ==
    /\ pc = "ready"
    /\ lang = "rust"
    /\ Called(Rust_call(left, content))

CallSolidity ==
    /\ pc = "ready"
    /\ lang = "solidity"
    /\ Called(Sol_call(left, content))

CallPython ==
    /\ pc = "ready"
    /\ lang = "python"
    /\ Called(Py_call(left, content))

CallJavaScript ==
    /\ pc = "ready"
    /\ lang = "javascript"
    /\ Called(Js_call(left, content))

(* the caller hands the instance another text *)
NextCall ==
    /\ pc = "done"
    /\ Len(calls) < MaxCalls
    /\ content' \in CallInputs(lang)
    /\ pc' = "ready"
    /\ functions' = <<>>
    /\ raised' = FALSE
    /\ UNCHANGED <<lang, calls, left, treeVars, fileVars, ioVars>>

CallsNext == CallJavaScript \/ CallPython \/ CallSolidity \/ CallRust \/ NextCall

CallsSpec == CallsInit /\ [][CallsNext]_vars

----------------------------------------------------------------------------
(* cpai/main.py: the renderers of the tree.  A string is a sequence of     *)
(* characters; the four box-drawing characters of the connectors are       *)
(* written as the symbols below.                                           *)

NL == "\n"
BOX_TEE == "<tee>"
BOX_CORNER == "<corner>"
BOX_H == "<h>"
BOX_V == "<v>"

BRANCH == <<BOX_TEE, BOX_H, BOX_H, " ">>
CORNER == <<BOX_CORNER, BOX_H, BOX_H, " ">>
CONTINUE_V == <<BOX_V, " ", " ", " ">>
CONTINUE_BLANK == <<" ", " ", " ", " ">>

(* the printable ASCII characters, from code point 32 on (the quotation   *)
(* mark, the backslash and the backtick written as symbols)                *)
Printable ==
    <<" ", "!", "<quote>", "#", "$", "%", "&", "'", "(", ")", "*", "+",
      ",", "-", ".", "/", "0", "1", "2", "3", "4", "5", "6", "7",
      "8", "9", ":", ";", "<", "=", ">", "?", "@", "A", "B", "C",
      "D", "E", "F", "G", "H", "I", "J", "K", "L", "M", "N", "O",
      "P", "Q", "R", "S", "T", "U", "V", "W", "X", "Y", "Z", "[",
      "<backslash>", "]", "^", "_", "<backtick>", "a", "b", "c", "d", "e", "f", "g",
      "h", "i", "j", "k", "l", "m", "n", "o", "p", "q", "r", "s",
      "t", "u", "v", "w", "x", "y", "z", "{", "|", "}", "~">>

(* the code point of each character *)
CodePoints ==
    [c \in {Printable[i] : i \in DOMAIN Printable} |->
        31 + CHOOSE i \in DOMAIN Printable : Printable[i] = c]

(* ord(c) *)
ord(c) == CodePoints[c]

(* str.lower() *)
lower(str) ==
    [i \in DOMAIN str |->
        LET code == ord(str[i])
        IN  IF code >= 65 /\ code <= 90 THEN Printable[code + 32 - 31] ELSE str[i]]

(* a < b on str: by code point at the first difference, a proper prefix    *)
(* being smaller                                                           *)
str_less(a, b) ==
    \E k \in 0..Min({Len(a), Len(b)}) :
        /\ \A i \in 1..k : a[i] = b[i]
        /\ IF k = Len(a) THEN k < Len(b)
           ELSE k < Len(b) /\ ord(a[k + 1]) < ord(b[k + 1])

(* `c in str` for a character c *)
Contains(str, c) == \E i \in DOMAIN str : str[i] = c

(* str.split(sep, 1) of a string that contains sep *)
split_once(str, sep) ==
    LET i == Min({k \in DOMAIN str : str[k] = sep})
    IN  <<SubSeq(str, 1, i - 1), SubSeq(str, i + 1, Len(str))>>

(* str.split(sep) *)
RECURSIVE split(_, _)
split(str, sep) ==
    IF ~Contains(str, sep) THEN <<str>>
    ELSE <<split_once(str, sep)[1]>> \o split(split_once(str, sep)[2], sep)

(* sorted(keys) of a set of strings *)
RECURSIVE sorted_strings(_)
sorted_strings(S) ==
    IF S = {} THEN <<>>
    ELSE LET least == CHOOSE x \in S : \A y \in S \ {x} : str_less(x, y)
         IN  <<least>> \o sorted_strings(S \ {least})

(* str.rstrip() *)
RECURSIVE rstrip(_)
rstrip(str) ==
    IF str # <<>> /\ str[Len(str)] \in {" ", NL}
    THEN rstrip(SubSeq(str, 1, Len(str) - 1))
    ELSE str

(* os.path.relpath(path, cwd) of a relative path: the leading `./` goes *)
RECURSIVE relpath(_)
relpath(path) ==
    IF Len(path) >= 2 /\ path[1] = "." /\ path[2] = "/"
    THEN relpath(SubSeq(path, 3, Len(path)))
    ELSE path

(* the leaf text without the parameters *)
format_function_text_bare(func) == func.name \o <<"(", ")">>

(* the text of a leaf: name(parameters), or name() when parameters is     *)
(* None or empty                                                           *)
format_function_text(func) ==
    IF func.parameters # None /\ func.parameters[1] # <<>>
    THEN func.name \o <<"(">> \o func.parameters[1] \o <<")">>
    ELSE func.name \o <<"(", ")">>

(* sorted(functions, key=lambda x: x.name.lower()): a stable sort.  The    *)
(* Declaration objects are objs; ids are positions in objs.                *)
RECURSIVE sorted_by_lower_name(_, _)
sorted_by_lower_name(objs, ids) ==
    IF ids = <<>> THEN <<>>
    ELSE LET rest == sorted_by_lower_name(objs, SubSeq(ids, 1, Len(ids) - 1))
             last == ids[Len(ids)]
             n == Cardinality({k \in DOMAIN rest :
                                 ~str_less(lower(objs[last].name),
                                           lower(objs[rest[k]].name))})
         IN  SubSeq(rest, 1, n) \o <<last>> \o SubSeq(rest, n + 1, Len(rest))

RECURSIVE format_functions_as_tree(_, _, _)
RECURSIVE format_class_nodes(_, _, _, _)

(* format_functions_as_tree(functions, indent): the text, and the objects  *)
(* as the call leaves them (func.name = method_name)                       *)
format_functions_as_tree(objs, ids, indent) ==
    IF ids = <<>> THEN [text |-> <<>>, objs |-> objs]
    ELSE LET sorted_funcs == sorted_by_lower_name(objs, ids)
             dotted == {i \in Range(ids) : Contains(objs[i].name, ".")}
             classes ==
                 [c \in {split_once(objs[i].name, ".")[1] : i \in dotted} |->
                    SelectSeq(sorted_funcs,
                              LAMBDA i : /\ i \in dotted
                                         /\ split_once(objs[i].name, ".")[1] = c)]
             standalone_funcs == SelectSeq(sorted_funcs, LAMBDA i : i \notin dotted)
             renamed ==
                 [i \in DOMAIN objs |->
                    IF i \in dotted
                    THEN [objs[i] EXCEPT !.name = split_once(@, ".")[2]]
                    ELSE objs[i]]
             nodes == format_class_nodes(renamed, classes,
                                         sorted_strings(DOMAIN classes), indent)
             func_lines ==
                 [k \in DOMAIN standalone_funcs |->
                    indent
                    \o (IF k = Len(standalone_funcs) /\ DOMAIN classes = {}
                        THEN CORNER ELSE BRANCH)
                    \o format_function_text(nodes.objs[standalone_funcs[k]])]
         IN  [text |-> JoinWith(<<NL>>, nodes.lines \o func_lines),
              objs |-> nodes.objs]

(* `for class_name in sorted(classes.keys())` *)
format_class_nodes(objs, classes, keys, indent) ==
    IF keys = <<>> THEN [lines |-> <<>>, objs |-> objs]
    ELSE LET class_name == Head(keys)
             class_methods ==
                 format_functions_as_tree(objs, classes[class_name],
                                          indent \o CONTINUE_V)
             rest == format_class_nodes(class_methods.objs, classes, Tail(keys), indent)
         IN  [lines |-> <<indent \o BRANCH \o class_name>>
                        \o (IF class_methods.text # <<>>
                            THEN <<class_methods.text>> ELSE <<>>)
                        \o rest.lines,
              objs |-> rest.objs]

(* the positions of a list *)
Ids(list) == [i \in DOMAIN list |-> i]

(* A dict is the sequence of its entries in insertion order.  A value of   *)
(* the nested tree is a dict (a directory), a str (the outline of a file)  *)
(* or None (a file, in format_tree).                                       *)
Dir(items) == [kind |-> "dir", items |-> items, text |-> <<>>]
Str(text) == [kind |-> "str", items |-> <<>>, text |-> text]
NoneLeaf == [kind |-> "none", items |-> <<>>, text |-> <<>>]

dict_has(items, key) == \E i \in DOMAIN items : items[i].key = key

dict_get(items, key) == items[CHOOSE i \in DOMAIN items : items[i].key = key].value

(* d[key] = value *)
dict_set(items, key, value) ==
    IF dict_has(items, key)
    THEN [i \in DOMAIN items |->
            IF items[i].key = key THEN [key |-> key, value |-> value] ELSE items[i]]
    ELSE Append(items, [key |-> key, value |-> value])

(* every directory of the path gets an entry of its own *)
RECURSIVE tree_insert_unshared(_, _, _)
tree_insert_unshared(node, parts, leaf) ==
    IF Len(parts) = 1
    THEN [node |-> Dir(dict_set(node.items, parts[1], leaf)), error |-> ""]
    ELSE LET sub == tree_insert_unshared(Dir(<<>>), Tail(parts), leaf)
         IN  [node |-> Dir(Append(node.items, [key |-> Head(parts), value |-> sub.node])),
              error |-> ""]

(* the walk down the directories of one path and the assignment of the    *)
(* leaf; a TypeError is raised when the walk steps into a value that is    *)
(* not a dict: in the loop over the directories ("dirs") or at the         *)
(* assignment of the leaf ("assign")                                       *)
RECURSIVE tree_insert(_, _, _)
tree_insert(node, parts, leaf) ==
    IF Len(parts) = 1
    THEN [node |-> Dir(dict_set(node.items, parts[1], leaf)), error |-> ""]
    ELSE LET part == Head(parts)
             items1 == IF dict_has(node.items, part) THEN node.items
                       ELSE Append(node.items, [key |-> part, value |-> Dir(<<>>)])
             child == dict_get(items1, part)
             sub == tree_insert(child, Tail(parts), leaf)
         IN  IF child.kind # "dir"
             THEN [node |-> node,
                   error |-> IF Len(parts) = 2 THEN "assign" ELSE "dirs"]
             ELSE [node |-> Dir(dict_set(items1, part, sub.node)), error |-> sub.error]

(* build_tree_structure(files_dict): the nested dict, the Declaration      *)
(* objects as the calls of format_functions_as_tree leave them, and the    *)
(* exception if one is raised                                              *)
RECURSIVE build_tree_loop(_, _, _)
build_tree_loop(tree, files, k) ==
    IF k > Len(files) THEN [tree |-> tree, files |-> files, raised |-> FALSE]
    ELSE LET outline == format_functions_as_tree(files[k].outline,
                                                 Ids(files[k].outline), <<>>)
             added == tree_insert(tree, split(files[k].path, "/"), Str(outline.text))
             formatted == [files EXCEPT ![k].outline = outline.objs]
         IN  CASE added.error = "dirs" ->
                    [tree |-> tree, files |-> files, raised |-> TRUE]
               [] added.error = "assign" ->
                    [tree |-> tree, files |-> formatted, raised |-> TRUE]
               [] OTHER -> build_tree_loop(added.node, formatted, k + 1)

build_tree_structure(files) == build_tree_loop(Dir(<<>>), files, 1)

(* sorted(tree.items()) *)
sorted_items(items) ==
    LET keys == sorted_strings({items[i].key : i \in DOMAIN items})
    IN  [k \in DOMAIN keys |-> [key |-> keys[k], value |-> dict_get(items, keys[k])]]

RECURSIVE format_tree_with_outlines(_, _)
RECURSIVE format_tree_items(_, _, _)

format_tree_with_outlines(tree, indent) ==
    IF tree.items = <<>> THEN <<>>
    ELSE JoinWith(<<NL>>, format_tree_items(sorted_items(tree.items), indent, 1))

(* the body of the loop of format_tree_with_outlines for item i *)
format_tree_items(items, indent, i) ==
    IF i > Len(items) THEN <<>>
    ELSE LET is_last == i = Len(items)
             prefix == IF is_last THEN CORNER ELSE BRANCH
             name == items[i].key
             item == items[i].value
             new_indent == indent \o (IF is_last THEN CONTINUE_BLANK ELSE CONTINUE_V)
             subtree == format_tree_with_outlines(item, new_indent)
             outline_lines == split(item.text, NL)
             below ==
                 CASE item.kind = "dir" ->
                        IF subtree # <<>> THEN <<subtree>> ELSE <<>>
                   [] item.kind = "str" /\ item.text # <<>> ->
                        [k \in DOMAIN outline_lines |-> new_indent \o outline_lines[k]]
                   [] OTHER -> <<>>
         IN  <<indent \o prefix \o name>> \o below
             \o format_tree_items(items, indent, i + 1)

RECURSIVE format_tree_string(_, _)
RECURSIVE format_tree_string_items(_, _, _)

(* format_tree_string(tree, prefix): the items in the order of the dict *)
format_tree_string(tree, prefix) ==
    IF tree.items = <<>> THEN <<>>
    ELSE JoinWith(<<NL>>,
                  SelectSeq(format_tree_string_items(tree.items, prefix, 1),
                            LAMBDA str : str # <<>>))

format_tree_string_items(items, prefix, i) ==
    IF i > Len(items) THEN <<>>
    ELSE LET is_last_item == i = Len(items)
             connector == IF is_last_item THEN CORNER ELSE BRANCH
             new_prefix == prefix \o (IF is_last_item THEN CONTINUE_BLANK
                                      ELSE CONTINUE_V)
         IN  <<prefix \o connector \o items[i].key>>
             \o (IF items[i].value.kind # "none"
                 THEN <<format_tree_string(items[i].value, new_prefix)>>
                 ELSE <<>>)
             \o format_tree_string_items(items, prefix, i + 1)

RECURSIVE format_tree_build(_, _, _)
format_tree_build(tree, rel_files, k) ==
    IF k > Len(rel_files) THEN [tree |-> tree, raised |-> FALSE]
    ELSE LET added == tree_insert(tree, split(rel_files[k], "/"), NoneLeaf)
         IN  IF added.error # "" THEN [tree |-> tree, raised |-> TRUE]
             ELSE format_tree_build(added.node, rel_files, k + 1)

(* format_tree(files) *)
format_tree(paths) ==
    LET built == format_tree_build(Dir(<<>>), [k \in DOMAIN paths |-> relpath(paths[k])], 1)
    IN  IF paths = <<>> THEN [text |-> <<>>, raised |-> FALSE]
        ELSE IF built.raised THEN [text |-> <<>>, raised |-> TRUE]
        ELSE [text |-> rstrip(format_tree_string(built.tree, <<>>)), raised |-> FALSE]

----------------------------------------------------------------------------
(* The renderers called on one mapping of path to Declaration list, one    *)
(* call after the other on the same Declaration objects.                   *)

MaxFiles == 2
MaxDecls == 2
MaxRenders == 2

(* relative paths of files of one directory tree *)
TreePaths ==
    {<<"a">>, <<"B">>, <<"d", "/", "x">>, <<"d", "/", "a">>,
     <<"d", "/", "e", "/", "z">>}

TreeDecls ==
    {FunctionInfo(<<"a">>, 1, Some(<<"x">>), None, None, FALSE, FALSE, "function"),
     FunctionInfo(<<"B">>, 1, None, None, None, FALSE, FALSE, "function"),
     FunctionInfo(<<"F", "o", "o", ".", "b", "a", "r">>, 1, None, None, None,
                  FALSE, FALSE, "method"),
     FunctionInfo(<<"F", "o", "o", ".", "F", "o", "o">>, 1, None, None, None,
                  FALSE, FALSE, "function"),
     FunctionInfo(<<"A", ".", "B", ".", "m">>, 1, Some(<<"x">>), None, None,
                  FALSE, FALSE, "function")}

(* Declaration lists as the extractors return them: no name twice *)
TreeOutlines ==
    {o \in SeqsUpTo(TreeDecls, MaxDecls) :
        \A i, j \in DOMAIN o : o[i].name = o[j].name => i = j}

(* the sum of the lengths of the outlines of a mapping *)
RECURSIVE DeclCount(_)
DeclCount(files) ==
    IF files = <<>> THEN 0 ELSE Len(Head(files).outline) + DeclCount(Tail(files))

TreeInputs ==
    {fd \in SeqsUpTo([path : TreePaths, outline : TreeOutlines], MaxFiles) :
        /\ \A i, j \in DOMAIN fd : fd[i].path = fd[j].path => i = j
        /\ DeclCount(fd) <= MaxDecls}

(* no extractor is being called *)
ExtractorIdle ==
    /\ lang = "rust"
    /\ content = <<>>
    /\ pc = "idle"
    /\ functions = <<>>
    /\ raised = FALSE
    /\ calls = <<>>
    /\ left = None

TreeInit ==
    /\ ExtractorIdle
    /\ files_dict \in TreeInputs
    /\ renders = <<>>
    /\ FilesIdle
    /\ IoIdle

Rendered(fn, file, text, exc) ==
    /\ renders' = Append(renders, [fn |-> fn, file |-> file, before |-> files_dict,
                                   text |-> text, raised |-> exc])
    /\ UNCHANGED <<lang, content, pc, functions, raised, callVars, fileVars, ioVars>>

(* build_tree_structure(files_dict), then format_tree_with_outlines(tree) *)
RenderOutlines ==
    /\ Len(renders) < MaxRenders
    /\ LET built == build_tree_structure(files_dict)
       IN  /\ files_dict' = built.files
           /\ Rendered("outlines", 0,
                       IF built.raised THEN <<>>
                       ELSE format_tree_with_outlines(built.tree, <<>>),
                       built.raised)

(* format_functions_as_tree(outline) on the Declaration list of one file *)
RenderFunctions ==
    /\ Len(renders) < MaxRenders
    /\ \E i \in DOMAIN files_dict :
         LET out == format_functions_as_tree(files_dict[i].outline,
                                             Ids(files_dict[i].outline), <<>>)
         IN  /\ files_dict' = [files_dict EXCEPT ![i].outline = out.objs]
             /\ Rendered("functions", i, out.text, FALSE)

(* format_tree(files) on the paths of the mapping *)
RenderTree ==
    /\ Len(renders) < MaxRenders
    /\ LET out == format_tree([i \in DOMAIN files_dict |-> files_dict[i].path])
       IN  /\ files_dict' = files_dict
           /\ Rendered("tree", 0, out.text, out.raised)

TreeNext == RenderOutlines \/ RenderFunctions \/ RenderTree

TreeSpec == TreeInit /\ [][TreeNext]_vars

----------------------------------------------------------------------------
(* The shape of a rendered text, read off its lines: the depth of a line   *)
(* is the number of four-character indentation units before its            *)
(* connector, its name is what follows the connector.                      *)

RenderLines(text) == IF text = <<>> THEN <<>> ELSE split(text, NL)

LineConnectorAt(line) == Min({k \in DOMAIN line : line[k] \in {BOX_TEE, BOX_CORNER}})

LineDepth(line) == (LineConnectorAt(line) - 1) \div 4

LineConnector(line) == SubSeq(line, LineConnectorAt(line), LineConnectorAt(line) + 3)

LineName(line) == SubSeq(line, LineConnectorAt(line) + 4, Len(line))

(* line j lies in the subtree of line i *)
InSubtree(lines, i, j) ==
    j > i /\ \A k \in (i + 1)..j : LineDepth(lines[k]) > LineDepth(lines[i])

(* line j is the next sibling of line i *)
NextSibling(lines, i, j) ==
    /\ j > i
    /\ LineDepth(lines[j]) = LineDepth(lines[i])
    /\ \A k \in (i + 1)..(j - 1) : InSubtree(lines, i, k)

LastSibling(lines, i) == ~\E j \in DOMAIN lines : NextSibling(lines, i, j)

(* the names from the top level down to line i *)
RECURSIVE LinePath(_, _)
LinePath(lines, i) ==
    LET above == {j \in 1..(i - 1) : LineDepth(lines[j]) = LineDepth(lines[i]) - 1}
    IN  IF LineDepth(lines[i]) = 0 \/ above = {}
        THEN <<LineName(lines[i])>>
        ELSE LinePath(lines, Max(above)) \o <<LineName(lines[i])>>

(* the directories and files of a mapping: the non-empty prefixes of the   *)
(* segment lists of its paths                                              *)
PathPrefixes(files) ==
    UNION {{SubSeq(split(files[i].path, "/"), 1, n) :
               n \in 1..Len(split(files[i].path, "/"))} : i \in DOMAIN files}

(* tree[parts[1]][parts[2]]...: the value, or a value of kind "missing" *)
RECURSIVE Lookup(_, _)
Lookup(node, parts) ==
    IF parts = <<>> THEN node
    ELSE IF node.kind = "dir" /\ dict_has(node.items, Head(parts))
    THEN Lookup(dict_get(node.items, Head(parts)), Tail(parts))
    ELSE [kind |-> "missing", items |-> <<>>, text |-> <<>>]

(* no dict of the tree has a key twice *)
RECURSIVE UniqueKeys(_)
UniqueKeys(node) ==
    /\ \A i, j \in DOMAIN node.items : node.items[i].key = node.items[j].key => i = j
    /\ \A i \in DOMAIN node.items : UniqueKeys(node.items[i].value)

(* C13: a renderer called a second time on the same mapping and the same   *)
(* Declaration objects returns the text it returned the first time.       *)
C13_Repeatable ==
    \A i \in DOMAIN renders :
        (/\ i + 1 \in DOMAIN renders
         /\ renders[i + 1].fn = renders[i].fn
         /\ renders[i + 1].file = renders[i].file) =>
            renders[i + 1].text = renders[i].text

(* C14: in every rendered text, siblings are in strictly ascending         *)
(* case-sensitive order of their displayed names.                          *)
C14_SiblingsSorted ==
    \A r \in DOMAIN renders :
        LET lines == RenderLines(renders[r].text)
        IN  \A i, j \in DOMAIN lines :
                NextSibling(lines, i, j) =>
                    str_less(LineName(lines[i]), LineName(lines[j]))

(* C15: in every rendered text, exactly the last sibling of a level has    *)
(* the corner connector and a blank continuation in the lines of its       *)
(* subtree; every other sibling has the branch connector and the vertical  *)
(* continuation.                                                           *)
C15_Connectors ==
    \A r \in DOMAIN renders :
        LET lines == RenderLines(renders[r].text)
        IN  \A i \in DOMAIN lines :
                LET at == LineConnectorAt(lines[i])
                    last == LastSibling(lines, i)
                IN  /\ LineConnector(lines[i]) = (IF last THEN CORNER ELSE BRANCH)
                    /\ \A j \in DOMAIN lines :
                         InSubtree(lines, i, j) =>
                            SubSeq(lines[j], at, at + 3) =
                               (IF last THEN CONTINUE_BLANK ELSE CONTINUE_V)

(* C16: the nested map built from a set of file paths has, for every path, *)
(* the chain of its segments: directories down to the leaf of the file     *)
(* (its outline, or None in format_tree); a directory shared by two paths  *)
(* is one node; the rendered text has one line for every directory and     *)
(* one for every file; no path gives the empty text.                       *)
C16_TreeOf(r, tree) ==
    /\ UniqueKeys(tree)
    /\ \A i \in DOMAIN r.before :
         LET parts == split(r.before[i].path, "/")
             leaf == Lookup(tree, parts)
         IN  /\ \A n \in 1..(Len(parts) - 1) :
                  Lookup(tree, SubSeq(parts, 1, n)).kind = "dir"
             /\ IF r.fn = "tree" THEN leaf = NoneLeaf
                ELSE leaf = Str(format_functions_as_tree(
                                    r.before[i].outline,
                                    Ids(r.before[i].outline), <<>>).text)

C16_LinesOf(r) ==
    LET lines == RenderLines(r.text)
    IN  /\ \A p \in PathPrefixes(r.before) :
             Cardinality({i \in DOMAIN lines : LinePath(lines, i) = p}) = 1
        /\ \A i \in DOMAIN lines :
             \/ LinePath(lines, i) \in PathPrefixes(r.before)
             \/ /\ r.fn = "outlines"
                /\ \E f \in DOMAIN r.before :
                     /\ r.before[f].outline # <<>>
                     /\ IsPrefix(split(r.before[f].path, "/"), LinePath(lines, i))
        /\ r.before = <<>> => r.text = <<>>

C16_StructuralMerge ==
    \A k \in DOMAIN renders :
        LET r == renders[k]
            paths == [i \in DOMAIN r.before |-> relpath(r.before[i].path)]
        IN  /\ r.fn \in {"outlines", "tree"} => ~r.raised /\ C16_LinesOf(r)
            /\ r.fn = "outlines" => C16_TreeOf(r, build_tree_structure(r.before).tree)
            /\ r.fn = "tree" => C16_TreeOf(r, format_tree_build(Dir(<<>>), paths, 1).tree)

(* two files of one directory, one of them with Declarations, have been    *)
(* rendered with their outlines                                            *)
C16_Witness ==
    \E k \in DOMAIN renders :
        /\ renders[k].fn = "outlines"
        /\ Len(renders[k].before) = 2
        /\ \A i \in DOMAIN renders[k].before : renders[k].before[i].path[1] = "d"
        /\ \E i \in DOMAIN renders[k].before : renders[k].before[i].outline # <<>>
        /\ Len(RenderLines(renders[k].text)) >= 4

(* C17: format_functions_as_tree renders every Declaration of a non-empty  *)
(* list exactly once, as a leaf line name(parameters), or name() without   *)
(* parameters, and a Declaration named C.rest beneath the one node line    *)
(* C, which precedes it.                                                   *)
C17_LeafOf(decl) ==
    LET segs == split(decl.name, ".")
    IN  SubSeq(segs, 1, Len(segs) - 1)
        \o <<segs[Len(segs)]
             \o (IF decl.parameters # None /\ decl.parameters[1] # <<>>
                 THEN <<"(">> \o decl.parameters[1] \o <<")">>
                 ELSE <<"(", ")">>)>>

C17_EveryDeclarationOnce ==
    \A k \in DOMAIN renders :
        renders[k].fn = "functions" =>
            LET outline == renders[k].before[renders[k].file].outline
                lines == RenderLines(renders[k].text)
                leaves == {i \in DOMAIN lines : lines[i][Len(lines[i])] = ")"}
            IN  /\ Cardinality(leaves) = Len(outline)
                /\ \A d \in DOMAIN outline :
                     Cardinality({i \in leaves :
                                    LinePath(lines, i) = C17_LeafOf(outline[d])}) = 1
                /\ \A i \in DOMAIN lines \ leaves :
                     /\ \A j \in DOMAIN lines \ leaves :
                          LinePath(lines, i) = LinePath(lines, j) => i = j
                     /\ \E d \in DOMAIN outline :
                          /\ IsPrefix(LinePath(lines, i), split(outline[d].name, "."))
                          /\ LinePath(lines, i) # split(outline[d].name, ".")

(* a list that holds a method two containers deep and a function with     *)
(* parameters has been rendered                                            *)
C17_Witness ==
    \E k \in DOMAIN renders :
        /\ renders[k].fn = "functions"
        /\ LET outline == renders[k].before[renders[k].file].outline
           IN  /\ \E d \in DOMAIN outline : Len(split(outline[d].name, ".")) = 3
               /\ \E d \in DOMAIN outline :
                    /\ ~Contains(outline[d].name, ".")
                    /\ outline[d].parameters # None
        /\ Len(RenderLines(renders[k].text)) = 4

----------------------------------------------------------------------------
(* cpai/main.py: extract_outline, process_file, process_files (the loop of *)
(* cpai is the same), format_content                                       *)

EndsWith(str, suffix) ==
    Len(str) >= Len(suffix)
    /\ SubSeq(str, Len(str) - Len(suffix) + 1, Len(str)) = suffix

(* SUPPORTED_EXTENSIONS of the four extractors *)
SUPPORTED_EXTENSIONS(l) ==
    CASE l = "javascript" ->
           {<<".", "j", "s">>, <<".", "j", "s", "x">>,
            <<".", "t", "s">>, <<".", "t", "s", "x">>}
      [] l = "python" -> {<<".", "p", "y">>}
      [] l = "solidity" -> {<<".", "s", "o", "l">>}
      [] l = "rust" -> {<<".", "r", "s">>}

(* supports_file without the lower() *)
supports_file_case_sensitive(l, filename) ==
    \E ext \in SUPPORTED_EXTENSIONS(l) : EndsWith(filename, ext)

(* any(filename.lower().endswith(ext) for ext in SUPPORTED_EXTENSIONS) *)
supports_file(l, filename) ==
    LET lowered == lower(filename)
    IN  \E ext \in SUPPORTED_EXTENSIONS(l) : EndsWith(lowered, ext)

(* the registry, in its order *)
EXTRACTORS == <<"javascript", "python", "solidity", "rust">>

(* `for extractor in EXTRACTORS: if extractor.supports_file(file_path)`:   *)
(* the first one, or None                                                  *)
extractor_for(file_path) ==
    LET supporting == {i \in DOMAIN EXTRACTORS : supports_file(EXTRACTORS[i], file_path)}
    IN  IF supporting = {} THEN None ELSE Some(EXTRACTORS[Min(supporting)])

(* The text of a file, in the form the extractor of its language reads:    *)
(* the lines of a Python, Rust or Solidity file, the program of a          *)
(* JavaScript file, the characters of any other; the other forms are empty *)
EmptyText ==
    [python |-> <<>>, rust |-> <<>>, solidity |-> <<>>,
     javascript |-> [syntax_ok |-> TRUE, body |-> <<>>], chars |-> <<>>]

FileText(form, t) ==
    CASE form = "python" -> [EmptyText EXCEPT !.python = t]
      [] form = "rust" -> [EmptyText EXCEPT !.rust = t]
      [] form = "solidity" -> [EmptyText EXCEPT !.solidity = t]
      [] form = "javascript" -> [EmptyText EXCEPT !.javascript = t]
      [] OTHER -> [EmptyText EXCEPT !.chars = t]

(* content = f.read(), as the extractor l takes it *)
ReadAs(l, text) ==
    CASE l = "python" -> text.python
      [] l = "rust" -> text.rust
      [] l = "solidity" -> text.solidity
      [] l = "javascript" -> text.javascript

(* extract_outline(file_path): the list, or None when reading raises *)
extract_outline(file) ==
    LET extractor == extractor_for(file.path)
    IN  IF extractor = None THEN Some(<<>>)
        ELSE IF ~file.readable THEN None
        ELSE Some(extract_functions(extractor[1], ReadAs(extractor[1], file.text)).functions)

(* `outline or []` *)
OrEmptyList(outline) == IF outline = None THEN <<>> ELSE outline[1]

(* process_file(file_path, options): the dict, or None *)
process_file(file, opts) ==
    IF opts.tree
    THEN Some([has_content |-> FALSE, content |-> EmptyText,
               outline |-> OrEmptyList(extract_outline(file))])
    ELSE IF ~file.readable THEN None
    ELSE Some([has_content |-> TRUE, content |-> file.text,
               outline |-> OrEmptyList(extract_outline(file))])

(* the last component of a path *)
basename(path) ==
    LET parts == split(path, "/") IN parts[Len(parts)]

(* os.path.splitext(path)[1]: from the last dot of the last component,     *)
(* leading dots not counted                                                *)
splitext_ext(path) ==
    LET name == basename(path)
        dots == {i \in DOMAIN name :
                   name[i] = "." /\ \E k \in 1..(i - 1) : name[k] # "."}
    IN  IF dots = {} THEN <<>> ELSE SubSeq(name, Max(dots), Len(name))

(* should_process_file(file_path, config) *)
should_process_file(file, config) ==
    /\ file.exists
    /\ \/ config.fileExtensions = {}
       \/ lower(splitext_ext(file.path)) \in config.fileExtensions

(* one turn of the loop that gives up at the first file without a result *)
loop_body_abort(done, file, config) ==
    LET result == process_file(file, config)
    IN  IF ~should_process_file(file, config) THEN [processed |-> done, halted |-> FALSE]
        ELSE IF result = None THEN [processed |-> done, halted |-> TRUE]
        ELSE [processed |-> dict_set(done, file.path, result[1]), halted |-> FALSE]

(* one turn of `for file in files` *)
loop_body(done, file, config) ==
    LET result == process_file(file, config)
    IN  IF ~should_process_file(file, config) THEN [processed |-> done, halted |-> FALSE]
        ELSE IF result = None THEN [processed |-> done, halted |-> FALSE]
        ELSE [processed |-> dict_set(done, file.path, result[1]), halted |-> FALSE]

(* ext_to_lang *)
ext_to_lang ==
    {<<<<".", "p", "y">>, <<"p", "y", "t", "h", "o", "n">>>>,
     <<<<".", "j", "s">>, <<"j", "a", "v", "a", "s", "c", "r", "i", "p", "t">>>>,
     <<<<".", "j", "s", "x">>, <<"j", "a", "v", "a", "s", "c", "r", "i", "p", "t">>>>,
     <<<<".", "t", "s">>, <<"t", "y", "p", "e", "s", "c", "r", "i", "p", "t">>>>,
     <<<<".", "t", "s", "x">>, <<"t", "y", "p", "e", "s", "c", "r", "i", "p", "t">>>>,
     <<<<".", "j", "a", "v", "a">>, <<"j", "a", "v", "a">>>>,
     <<<<".", "c", "p", "p">>, <<"c", "p", "p">>>>,
     <<<<".", "c">>, <<"c">>>>,
     <<<<".", "h">>, <<"c">>>>,
     <<<<".", "h", "p", "p">>, <<"c", "p", "p">>>>,
     <<<<".", "g", "o">>, <<"g", "o">>>>,
     <<<<".", "r", "s">>, <<"r", "u", "s", "t">>>>,
     <<<<".", "r", "b">>, <<"r", "u", "b", "y">>>>,
     <<<<".", "p", "h", "p">>, <<"p", "h", "p">>>>,
     <<<<".", "c", "s">>, <<"c", "s", "h", "a", "r", "p">>>>,
     <<<<".", "s", "w", "i", "f", "t">>, <<"s", "w", "i", "f", "t">>>>,
     <<<<".", "k", "t">>, <<"k", "o", "t", "l", "i", "n">>>>,
     <<<<".", "s", "c", "a", "l", "a">>, <<"s", "c", "a", "l", "a">>>>,
     <<<<".", "m">>, <<"o", "b", "j", "e", "c", "t", "i", "v", "e", "c">>>>,
     <<<<".", "m", "m">>, <<"o", "b", "j", "e", "c", "t", "i", "v", "e", "c">>>>,
     <<<<".", "s", "h">>, <<"b", "a", "s", "h">>>>,
     <<<<".", "b", "a", "s", "h">>, <<"b", "a", "s", "h">>>>,
     <<<<".", "z", "s", "h">>, <<"b", "a", "s", "h">>>>,
     <<<<".", "f", "i", "s", "h">>, <<"f", "i", "s", "h">>>>,
     <<<<".", "s", "q", "l">>, <<"s", "q", "l">>>>,
     <<<<".", "r">>, <<"r">>>>,
     <<<<".", "j", "s", "o", "n">>, <<"j", "s", "o", "n">>>>,
     <<<<".", "y", "a", "m", "l">>, <<"y", "a", "m", "l">>>>,
     <<<<".", "y", "m", "l">>, <<"y", "a", "m", "l">>>>,
     <<<<".", "x", "m", "l">>, <<"x", "m", "l">>>>,
     <<<<".", "h", "t", "m", "l">>, <<"h", "t", "m", "l">>>>,
     <<<<".", "c", "s", "s">>, <<"c", "s", "s">>>>,
     <<<<".", "s", "c", "s", "s">>, <<"s", "c", "s", "s">>>>,
     <<<<".", "l", "e", "s", "s">>, <<"l", "e", "s", "s">>>>,
     <<<<".", "m", "d">>, <<"m", "a", "r", "k", "d", "o", "w", "n">>>>,
     <<<<".", "r", "s", "t">>, <<"r", "s", "t">>>>,
     <<<<".", "t", "e", "x">>, <<"t", "e", "x">>>>,
     <<<<".", "d", "o", "c", "k", "e", "r", "f", "i", "l", "e">>, <<"d", "o", "c", "k", "e", "r", "f", "i", "l", "e">>>>,
     <<<<".", "t", "o", "m", "l">>, <<"t", "o", "m", "l">>>>,
     <<<<".", "i", "n", "i">>, <<"i", "n", "i">>>>,
     <<<<".", "c", "f", "g">>, <<"i", "n", "i">>>>,
     <<<<".", "c", "o", "n", "f">>, <<"i", "n", "i">>>>}

(* get_language_from_ext(ext) *)
get_language_from_ext(ext) ==
    LET key == lower(ext)
    IN  IF \E e \in ext_to_lang : e[1] = key
        THEN (CHOOSE e \in ext_to_lang : e[1] = key)[2]
        ELSE <<>>

(* {os.path.relpath(k, cwd): v for k, v in files.items()} *)
RECURSIVE rel_files_of(_)
rel_files_of(items) ==
    IF items = <<>> THEN <<>>
    ELSE LET last == items[Len(items)]
         IN  dict_set(rel_files_of(SubSeq(items, 1, Len(items) - 1)),
                      relpath(last.key), last.value)

(* the pieces format_content appends to output for one file *)
file_section(file_path, file_info) ==
    <<[piece |-> "header", text |-> file_path],
      [piece |-> "fence", text |-> get_language_from_ext(lower(splitext_ext(file_path)))]>>
    \o (IF file_info.has_content /\ file_info.content # EmptyText
        THEN <<[piece |-> "content", text |-> file_info.content]>>
        ELSE <<>>)
    \o <<[piece |-> "close", text |-> <<>>]>>

RECURSIVE file_sections(_)
file_sections(items) ==
    IF items = <<>> THEN <<>>
    ELSE file_section(Head(items).key, Head(items).value) \o file_sections(Tail(items))

(* format_content(files, options): the list `output`, whose items the      *)
(* function joins with newlines, and whether an exception is raised        *)
format_content(done) ==
    LET rel_files == rel_files_of(done)
        built == build_tree_structure(
                     [i \in DOMAIN rel_files |->
                        [path |-> rel_files[i].key,
                         outline |-> rel_files[i].value.outline]])
        formatted == [i \in DOMAIN rel_files |->
                        [key |-> rel_files[i].key,
                         value |-> [rel_files[i].value EXCEPT
                                      !.outline = built.files[i].outline]]]
    IN  IF done = <<>> THEN [output |-> <<>>, raised |-> FALSE]
        ELSE IF built.raised THEN [output |-> <<>>, raised |-> TRUE]
        ELSE [output |->
                <<[piece |-> "title", text |-> <<>>],
                  [piece |-> "tree", text |-> format_tree_with_outlines(built.tree, <<>>)],
                  [piece |-> "blank", text |-> <<>>]>>
                \o file_sections(sorted_items(formatted)),
              raised |-> FALSE]

----------------------------------------------------------------------------
(* process_files(files, config) on a list of paths, one turn of its loop   *)
(* at a time, then format_content on what the loop collected.              *)

MaxQueue == 2

(* paths under the working directory; none is a directory of another *)
FilePaths ==
    {<<"a", ".", "p", "y">>, <<"B", ".", "P", "Y">>,
     <<".", "/", "d", "/", "k", ".", "R", "s">>, <<"d", "/", "e", ".", "s", "o", "l">>,
     <<"f", ".", "t", "s", "x">>, <<"n", "o", "t", "e", "s", ".", "t", "x", "t">>}

(* what a readable file of a path may hold: for a path with an extractor,  *)
(* texts of its language, one of them empty and, where the language has a  *)
(* parser, one the parser rejects; for the others, characters              *)
FileTexts(file_path) ==
    CASE extractor_for(file_path) = Some("python") ->
           {EmptyText,
            FileText("python", <<PyLine(0, "def", id_bar, <<id_a>>, TRUE, None)>>),
            FileText("python", <<PyLine(1, "def", id_bar, <<>>, TRUE, None)>>)}
      [] extractor_for(file_path) = Some("rust") ->
           {EmptyText, FileText("rust", <<R_impl, R_pub_fn_bar>>)}
      [] extractor_for(file_path) = Some("solidity") ->
           {EmptyText, FileText("solidity", <<S_contract, S_function_bar>>)}
      [] extractor_for(file_path) = Some("javascript") ->
           {EmptyText,
            FileText("javascript", [syntax_ok |-> FALSE, body |-> <<>>])}
      [] OTHER -> {EmptyText, FileText("chars", <<"h", "i">>)}

(* a path and what the file system holds for it: nothing, a file that      *)
(* cannot be read as text, or a readable file                              *)
FileStates(file_path) ==
    {[path |-> file_path, exists |-> FALSE, readable |-> FALSE, text |-> EmptyText],
     [path |-> file_path, exists |-> TRUE, readable |-> FALSE, text |-> EmptyText]}
    \cup {[path |-> file_path, exists |-> TRUE, readable |-> TRUE, text |-> t] :
            t \in FileTexts(file_path)}

FileInputs ==
    {fs \in SeqsUpTo(UNION {FileStates(file_path) : file_path \in FilePaths}, MaxQueue) :
        \A i, j \in DOMAIN fs : fs[i].path = fs[j].path => i = j}

(* the pattern that names everything under a directory d, at any depth *)
ExcludeDirD == <<"*", "*", "/", "d", "/", "*", "*">>

(* config: tree, fileExtensions and the exclude patterns; the exclude      *)
(* patterns are tried with every file extension allowed                    *)
ConfigInputs ==
    {config \in [tree : BOOLEAN, fileExtensions : {{}, {<<".", "p", "y">>}},
                 exclude : {<<>>, <<ExcludeDirD>>}] :
        config.exclude = <<>> \/ config.fileExtensions = {}}

FilesInit ==
    /\ ExtractorIdle
    /\ TreeIdle
    /\ IoIdle
    /\ options \in ConfigInputs
    /\ file_list \in FileInputs
    /\ cursor = 1
    /\ processed = <<>>
    /\ document = None
    /\ halted = FALSE

(* one turn of the loop `for file in files` *)
ProcessFile ==
    /\ cursor \in DOMAIN file_list
    /\ ~halted
    /\ document = None
    /\ LET turn == loop_body(processed, file_list[cursor], options)
       IN  /\ processed' = turn.processed
           /\ halted' = turn.halted
    /\ cursor' = cursor + 1
    /\ UNCHANGED <<lang, content, pc, functions, raised, callVars, treeVars, ioVars,
                   options, file_list, document>>

(* after the loop: "No files to process", or format_content *)
Format ==
    /\ cursor = Len(file_list) + 1
    /\ ~halted
    /\ document = None
    /\ document' = Some(format_content(processed))
    /\ UNCHANGED <<lang, content, pc, functions, raised, callVars, treeVars, ioVars,
                   options, file_list, cursor, processed, halted>>

FilesNext == ProcessFile \/ Format

FilesSpec == FilesInit /\ [][FilesNext]_vars

----------------------------------------------------------------------------
(* What the claims about process_files are stated with.                    *)

(* the letters, each in its two cases *)
LetterPairs == {{Printable[k - 31], Printable[k + 32 - 31]} : k \in 65..90}

(* two characters are the same letter, whatever their case *)
SameLetter(c, d) == c = d \/ {c, d} \in LetterPairs

(* the path ends with the extension, compared case-insensitively *)
EndsWithExtension(file_path, ext) ==
    /\ Len(file_path) >= Len(ext)
    /\ \A k \in DOMAIN ext :
         SameLetter(file_path[Len(file_path) - Len(ext) + k], ext[k])

(* the registry's languages whose extensions the path ends with *)
Supporting(file_path) ==
    {i \in DOMAIN EXTRACTORS :
        \E ext \in SUPPORTED_EXTENSIONS(EXTRACTORS[i]) : EndsWithExtension(file_path, ext)}

(* the files the loop has taken so far *)
Taken == 1..(cursor - 1)

(* the file passes should_process_file's extension filter *)
PassesFilter(file) ==
    \/ options.fileExtensions = {}
    \/ \E ext \in options.fileExtensions :
         /\ EndsWithExtension(file.path, ext)
         /\ Len(file.path) > Len(ext)
         /\ file.path[Len(file.path) - Len(ext)] # "/"

C19_FailuresAreLocal ==
    /\ ~halted
    /\ \A i \in Taken :
         (file_list[i].exists /\ PassesFilter(file_list[i]) /\ file_list[i].readable)
           => dict_has(processed, file_list[i].path)
    /\ document # None => Taken = DOMAIN file_list

(* in regular mode, an unreadable file came first and the file after it,   *)
(* which the parser rejects, is in the result                              *)
C19_Witness ==
    /\ ~options.tree
    /\ document # None
    /\ Len(file_list) = 2
    /\ file_list[1].exists /\ ~file_list[1].readable /\ PassesFilter(file_list[1])
    /\ ~dict_has(processed, file_list[1].path)
    /\ file_list[2].readable
    /\ ParseFails("python", file_list[2].text.python)
    /\ dict_has(processed, file_list[2].path)

(* the paths of the per-file sections of a document *)
SectionPaths(output) ==
    {output[k].text : k \in {n \in DOMAIN output : output[n].piece = "header"}}

(* C20: a processed file with no declarations and no content has no        *)
(* section in the body of the document.                                    *)
C20_EmptyFilesSkipped ==
    document # None =>
      \A k \in DOMAIN processed :
        (processed[k].value.outline = <<>>
           /\ (~processed[k].value.has_content \/ processed[k].value.content = EmptyText))
          => relpath(processed[k].key) \notin SectionPaths(document[1].output)

----------------------------------------------------------------------------
(* C22: no returned Declaration is private: no dot-separated segment of a  *)
(* returned name, container prefix or identifier, starts with an           *)
(* underscore.                                                             *)
C22_NoPrivateSegment ==
    Done =>
      \A d \in DOMAIN functions :
        \A k \in DOMAIN split(functions[d].name, ".") :
          ~StartsWithUnderscore(split(functions[d].name, ".")[k])

(* `constructor(...` or `constructor (...` at the start of the line *)
SolIsConstructor(line) ==
    LET l == Strip(line)
    IN  /\ Len(l) >= 2
        /\ l[1] = kw_constructor
        /\ (l[2] = LPAREN \/ (l[2] = SP /\ At(l, 3) = LPAREN))

(* C23: the Solidity extractor emits nothing for a constructor line, with  *)
(* or without a space before the parenthesis, and nothing for a function   *)
(* whose identifier starts with an underscore; every other function        *)
(* declared in the block of a contract or interface C is emitted as C.name *)
C23_SolidityFunctions ==
    (Done /\ lang = "solidity") =>
      \A i \in DOMAIN content :
        /\ SolIsConstructor(content[i]) =>
             \A d \in DOMAIN functions : functions[d].line_number # i
        /\ (SolFunctionName(content[i]) # None
              /\ StartsWithUnderscore(SolFunctionName(content[i])[1])) =>
             \A d \in DOMAIN functions : functions[d].line_number # i
        /\ SolHeaderName(content[i]) # None =>
             \A j \in (i + 1)..Len(content) :
               (/\ \A k \in (i + 1)..j :
                      \/ SolFunctionName(content[k]) # None
                      \/ SolIsConstructor(content[k])
                      \/ Strip(content[k]) = <<>>
                /\ SolFunctionName(content[j]) # None
                /\ ~StartsWithUnderscore(SolFunctionName(content[j])[1])) =>
                  \E d \in DOMAIN functions :
                    functions[d].name =
                      Qualified(SolHeaderName(content[i]), SolFunctionName(content[j])[1])

(* the braces opened and not yet closed before line j *)
RECURSIVE OpenBraces(_, _)
OpenBraces(lines, j) ==
    IF j <= 1 THEN 0
    ELSE OpenBraces(lines, j - 1)
         + Cardinality({k \in DOMAIN lines[j - 1] : lines[j - 1][k] = LBRACE})
         - Cardinality({k \in DOMAIN lines[j - 1] : lines[j - 1][k] = RBRACE})

(* line j is at top level, after a container block that has been closed *)
AfterClosedBlock(lines, j, header) ==
    /\ OpenBraces(lines, j) = 0
    /\ \A k \in 1..j : OpenBraces(lines, k) >= 0
    /\ \E i \in 1..(j - 1) : header[i]

(* C29: a function declared at top level after the closing brace of an     *)
(* earlier impl, struct, enum, trait, contract or interface block is       *)
(* emitted with its bare identifier and kind function.                     *)
C29_Rust ==
    (lang = "rust" /\ ~RustHasBlockComment(content)) =>
      \A j \in DOMAIN content :
        (/\ RustFnName(content[j]) # None
         /\ ~StartsWithUnderscore(RustFnName(content[j])[1])
         /\ AfterClosedBlock(content, j,
                [i \in DOMAIN content |-> RustHeaderName(content[i]) # None])) =>
           \E d \in DOMAIN functions :
             /\ functions[d].line_number = j
             /\ functions[d].name = RustFnName(content[j])[1]
             /\ functions[d].node_type = "function"

C29_Solidity ==
    lang = "solidity" =>
      \A j \in DOMAIN content :
        (/\ SolFunctionName(content[j]) # None
         /\ ~StartsWithUnderscore(SolFunctionName(content[j])[1])
         /\ AfterClosedBlock(content, j,
                [i \in DOMAIN content |-> SolHeaderName(content[i]) # None])) =>
           \E d \in DOMAIN functions :
             /\ functions[d].line_number = j
             /\ functions[d].name = SolFunctionName(content[j])[1]
             /\ functions[d].node_type = "function"

C29_OpenContainersOnly ==
    Done => C29_Rust /\ C29_Solidity

(* C28: rendering leaves its input unchanged: after a renderer has run,    *)
(* every Declaration of the mapping has the name, line number, parameters  *)
(* and kind it had before the call.                                        *)
C28_InputUnchanged ==
    \A k \in DOMAIN renders :
      LET after == IF k < Len(renders) THEN renders[k + 1].before ELSE files_dict
      IN  \A i \in DOMAIN after :
            \A d \in DOMAIN after[i].outline :
              /\ after[i].outline[d].name = renders[k].before[i].outline[d].name
              /\ after[i].outline[d].line_number = renders[k].before[i].outline[d].line_number
              /\ after[i].outline[d].parameters = renders[k].before[i].outline[d].parameters
              /\ after[i].outline[d].node_type = renders[k].before[i].outline[d].node_type

(* the positions of the section headers of a document, in order *)
HeaderPositions(output) == {n \in DOMAIN output : output[n].piece = "header"}

(* the pieces of the section that starts at position h *)
SectionOf(output, h) ==
    {n \in DOMAIN output :
        /\ n > h
        /\ \A m \in HeaderPositions(output) : m > h => n < m}

(* C21: the document of a non-empty mapping is the rendered tree, then     *)
(* exactly one section per file in ascending path order; a section holds   *)
(* the file's outline rendering in tree mode, and otherwise the file's     *)
(* content in a fence tagged with the language of its lower-cased          *)
(* extension (no tag when the table does not have it).                     *)
C21_DocumentLayout ==
    (document # None /\ processed # <<>>) =>
      LET output == document[1].output
          rel == rel_files_of(processed)
      IN  /\ Len(output) >= 3
          /\ output[1].piece = "title" /\ output[2].piece = "tree"
          /\ \A i \in DOMAIN rel :
               Cardinality({h \in HeaderPositions(output) :
                              output[h].text = rel[i].key}) = 1
          /\ \A h \in HeaderPositions(output) : dict_has(rel, output[h].text)
          /\ \A g, h \in HeaderPositions(output) :
               g < h => str_less(output[g].text, output[h].text)
          /\ \A h \in HeaderPositions(output) :
               LET info == dict_get(rel, output[h].text)
                   language == get_language_from_ext(lower(splitext_ext(output[h].text)))
               IN  IF options.tree
                   THEN info.outline # <<>> =>
                          \E n \in SectionOf(output, h) :
                            /\ output[n].piece = "outline"
                            /\ output[n].text =
                                 format_functions_as_tree(info.outline,
                                                          Ids(info.outline), <<>>).text
                   ELSE /\ \E n \in SectionOf(output, h) :
                             output[n].piece = "fence" /\ output[n].text = language
                        /\ info.content # EmptyText =>
                             \E n \in SectionOf(output, h) :
                               output[n].piece = "content" /\ output[n].text = info.content

(* the path matches a pattern of the form **/NAME/**: one of its           *)
(* directories is NAME                                                     *)
MatchesDirPattern(file_path, pattern) ==
    LET parts == split(relpath(file_path), "/")
        name == SubSeq(pattern, 4, Len(pattern) - 3)
    IN  /\ Len(pattern) >= 7
        /\ SubSeq(pattern, 1, 3) = <<"*", "*", "/">>
        /\ SubSeq(pattern, Len(pattern) - 2, Len(pattern)) = <<"/", "*", "*">>
        /\ \E k \in 1..(Len(parts) - 1) : parts[k] = name

Excluded(file) ==
    \E k \in DOMAIN options.exclude : MatchesDirPattern(file.path, options.exclude[k])

(* C27: the output of process_files has no file whose path matches one of  *)
(* config['exclude'] or whose extension is not in config['fileExtensions'], *)
(* and has every other existing readable file.                             *)
C27_ExcludedOmitted ==
    document # None =>
      \A i \in DOMAIN file_list :
        LET file == file_list[i]
            present ==
              /\ dict_has(processed, file.path)
              /\ relpath(file.path) \in SectionPaths(document[1].output)
        IN  /\ (Excluded(file) \/ ~PassesFilter(file)) => ~present
            /\ (~Excluded(file) /\ PassesFilter(file) /\ file.exists /\ file.readable)
                 => present

----------------------------------------------------------------------------
(* generate_tree(files), which finds the extractor of a file by the        *)
(* extension of its name, next to extract_outline, which asks the          *)
(* extractors of the registry.                                             *)

(* get_extractor_for_ext(ext): extractors.get(ext.lower()) *)
get_extractor_for_ext(ext) ==
    LET key == lower(ext)
    IN  CASE key \in {<<".", "j", "s">>, <<".", "j", "s", "x">>,
                      <<".", "t", "s">>, <<".", "t", "s", "x">>} -> Some("javascript")
          [] key = <<".", "p", "y">> -> Some("python")
          [] key = <<".", "s", "o", "l">> -> Some("solidity")
          [] key = <<".", "r", "s">> -> Some("rust")
          [] OTHER -> None

(* the lines generate_tree writes for the functions of one file *)
function_lines(functions_of_file) ==
    [k \in DOMAIN functions_of_file |->
        [piece |-> "function",
         text |-> (IF Contains(functions_of_file[k].name, ".")
                   THEN <<" ", " ", " ", " ">> ELSE <<>>)
                  \o CORNER \o functions_of_file[k].name]]

(* the second loop of generate_tree, for one file *)
function_tree(file) ==
    LET extractor == get_extractor_for_ext(splitext_ext(file.path))
        found == extract_functions(extractor[1], ReadAs(extractor[1], file.text)).functions
    IN  IF extractor = None \/ ~file.exists \/ ~file.readable THEN <<>>
        ELSE IF found = <<>> THEN <<>>
        ELSE <<[piece |-> "file", text |-> relpath(file.path)]>> \o function_lines(found)

(* generate_tree(files): the list tree_lines *)
generate_tree(files) ==
    LET names == sorted_strings({files[i].path : i \in DOMAIN files})
        sorted_files == [k \in DOMAIN names |->
                           files[CHOOSE i \in DOMAIN files : files[i].path = names[k]]]
    IN  IF files = <<>> THEN <<[piece |-> "empty", text |-> <<>>]>>
        ELSE <<[piece |-> "open", text |-> <<>>]>>
             \o [k \in DOMAIN sorted_files |->
                   [piece |-> "path", text |-> relpath(sorted_files[k].path)]]
             \o <<[piece |-> "close", text |-> <<>>]>>
             \o Flatten([k \in DOMAIN sorted_files |-> function_tree(sorted_files[k])])

(* file names: an upper-case extension, a name that is only an extension,  *)
(* a name with two dots, names without extractor                           *)
TreeViewPaths ==
    {<<"B", ".", "P", "Y">>, <<".", "p", "y">>,
     <<"d", "/", "e", ".", "m", "i", "n", ".", "R", "S">>,
     <<"n", "o", "t", "e", "s", ".", "t", "x", "t">>, <<"r", "s">>}

TreeViewInputs ==
    {fs \in SeqsUpTo(UNION {FileStates(file_path) : file_path \in TreeViewPaths}, MaxQueue) :
        \A i, j \in DOMAIN fs : fs[i].path = fs[j].path => i = j}

TreeViewInit ==
    /\ ExtractorIdle
    /\ TreeIdle
    /\ IoIdle
    /\ options = [tree |-> TRUE, fileExtensions |-> {}, exclude |-> <<>>]
    /\ file_list \in TreeViewInputs
    /\ cursor = 1
    /\ processed = <<>>
    /\ document = None
    /\ halted = FALSE

(* extract_outline(file_path) on the next file of the list *)
ExtractOutline ==
    /\ cursor \in DOMAIN file_list
    /\ processed' = dict_set(processed, file_list[cursor].path,
                             [has_content |-> FALSE, content |-> EmptyText,
                              outline |-> OrEmptyList(extract_outline(file_list[cursor]))])
    /\ cursor' = cursor + 1
    /\ UNCHANGED <<lang, content, pc, functions, raised, callVars, treeVars, ioVars,
                   options, file_list, document, halted>>

(* generate_tree(files) *)
GenerateTree ==
    /\ document = None
    /\ document' = Some([output |-> generate_tree(file_list), raised |-> FALSE])
    /\ UNCHANGED <<lang, content, pc, functions, raised, callVars, treeVars, ioVars,
                   options, file_list, cursor, processed, halted>>

TreeViewNext == ExtractOutline \/ GenerateTree

TreeViewSpec == TreeViewInit /\ [][TreeViewNext]_vars

(* C30: the two lookups agree: for every file name, get_extractor_for_ext  *)
(* on the extension of the name gives the extractor the registry scan      *)
(* with supports_file gives, and none exactly when the scan gives none; so *)
(* a file has a function section in generate_tree exactly when             *)
(* extract_outline returns Declarations for it.                            *)
C30_LookupsAgree ==
    \A i \in DOMAIN file_list :
      /\ get_extractor_for_ext(splitext_ext(file_list[i].path))
           = extractor_for(file_list[i].path)
      /\ (i < cursor /\ document # None /\ file_list[i].exists) =>
           (dict_get(processed, file_list[i].path).outline # <<>>
              <=> \E n \in DOMAIN document[1].output :
                    /\ document[1].output[n].piece = "file"
                    /\ document[1].output[n].text = relpath(file_list[i].path))

----------------------------------------------------------------------------
(* Values of a config: what json.load and the command line put under a     *)
(* key. num holds an int (and 1 or 0 for a bool), text a str, items the    *)
(* strings of a list.                                                      *)

JValue(type, num, text, items) ==
    [type |-> type, num |-> num, text |-> text, items |-> items]

(* the key is not in the dict *)
JAbsent == JValue("absent", 0, <<>>, <<>>)

JNull == JValue("null", 0, <<>>, <<>>)

JBool(b) == JValue("bool", IF b THEN 1 ELSE 0, <<>>, <<>>)

JInt(n) == JValue("int", n, <<>>, <<>>)

JStr(str) == JValue("str", 0, str, <<>>)

JList(items) == JValue("list", 0, <<>>, items)

(* bool(v) *)
Truthy(v) ==
    CASE v.type \in {"bool", "int"} -> v.num # 0
      [] v.type = "str" -> v.text # <<>>
      [] v.type = "list" -> v.items # <<>>
      [] OTHER -> FALSE

(* isinstance(v, int): a bool is an int *)
IsInt(v) == v.type \in {"int", "bool"}

(* config.get(key, default) *)
GetOr(v, default) == IF v = JAbsent THEN default ELSE v

----------------------------------------------------------------------------
(* write_output(content, config)                                           *)

MaxContent == 2

(* the literal default of config.get('chunkSize', 90000) *)
WRITE_OUTPUT_CHUNK_SIZE == 90000

Event(kind, text) == [kind |-> kind, text |-> text]

(* the block `if config.get('outputFile')` *)
write_file(text, config, env) ==
    IF ~Truthy(config.outputFile) THEN <<>>
    ELSE IF env.file_ok
    THEN <<Event("file", text), Event("info", "Content written to")>>
    ELSE <<Event("error", "Failed to write to file:")>>

(* the block `if config.get('usePastebin', True)` *)
copy_to_clipboard(text, config, env) ==
    IF ~Truthy(GetOr(config.usePastebin, JBool(TRUE))) THEN <<>>
    ELSE IF env.clipboard = "ok"
    THEN <<Event("clipboard", text),
           Event("info", IF Truthy(config.tree)
                         THEN "File and function tree copied to clipboard!"
                         ELSE "Content copied to clipboard")>>
    ELSE <<Event("error", "Failed to copy to clipboard:")>>

(* write_output(content, config): what it prints, writes and logs, in      *)
(* order, and whether an exception leaves it                               *)
write_output(text, config, env) ==
    LET chunk_size == GetOr(config.chunkSize, JInt(WRITE_OUTPUT_CHUNK_SIZE))
    IN  IF ~IsInt(chunk_size) THEN [events |-> <<>>, raised |-> TRUE]
        ELSE [events |->
                (IF Len(text) > chunk_size.num
                 THEN <<Event("print", "Warning: Content size")>> ELSE <<>>)
                \o write_file(text, config, env)
                \o copy_to_clipboard(text, config, env),
              raised |-> FALSE]

(* the configs write_output is called with: what read_config returns,      *)
(* updated with the options of the command line                            *)
WriteConfigs ==
    [chunkSize : {JAbsent, JInt(1), JStr(<<"b", "i", "g">>)},
     outputFile : {JAbsent, JBool(FALSE), JBool(TRUE), JStr(<<"o", ".", "m", "d">>)},
     usePastebin : {JAbsent, JBool(TRUE), JBool(FALSE)},
     tree : {JBool(FALSE), JBool(TRUE)}]

(* the file can be written or not; the clipboard command succeeds, exits   *)
(* with a non-zero status, or the attempt raises                           *)
WriteEnvironments ==
    [file_ok : BOOLEAN,
     clipboard : {"ok", "nonzero", "CalledProcessError", "UnicodeEncodeError",
                  "Exception"}]

WriteInit ==
    /\ ExtractorIdle
    /\ TreeIdle
    /\ FilesIdle
    /\ environment \in [fn : {"write_output"},
                        content : SeqsUpTo({"x"}, MaxContent),
                        config : WriteConfigs,
                        env : WriteEnvironments]
    /\ outcome = None

WriteOutput ==
    /\ environment.fn = "write_output"
    /\ outcome = None
    /\ outcome' = Some(write_output(environment.content, environment.config,
                                    environment.env))
    /\ UNCHANGED <<lang, content, pc, functions, raised, callVars, treeVars, fileVars,
                   environment>>

WriteNext == WriteOutput

WriteSpec == WriteInit /\ [][WriteNext]_vars

(* the positions of the events of a kind and text *)
EventsAt(events, kind, text) ==
    {n \in DOMAIN events : events[n].kind = kind /\ events[n].text = text}

(* C24: write_output never raises; the file is written before the          *)
(* clipboard is tried; a failed file write is logged and the clipboard is  *)
(* still tried; a failed copy is logged as an error beginning `Failed to   *)
(* copy to clipboard:` without a success message; content larger than      *)
(* chunkSize is warned about and still written in full.                    *)
C24_Delivery ==
    outcome # None =>
      LET result == outcome[1]
          events == result.events
          config == environment.config
          env == environment.env
          text == environment.content
          to_file == Truthy(config.outputFile)
          to_clipboard == Truthy(GetOr(config.usePastebin, JBool(TRUE)))
          copies == {n \in DOMAIN events :
                       \/ events[n].kind = "clipboard"
                       \/ events[n] = Event("error", "Failed to copy to clipboard:")}
          successes == {n \in DOMAIN events :
                          /\ events[n].kind = "info"
                          /\ events[n].text # "Content written to"}
      IN  /\ ~result.raised
          /\ (to_file /\ env.file_ok) =>
               /\ EventsAt(events, "file", text) # {}
               /\ \A n \in EventsAt(events, "file", text) : \A m \in copies : n < m
          /\ (to_file /\ ~env.file_ok) =>
               EventsAt(events, "error", "Failed to write to file:") # {}
          /\ to_clipboard => copies # {}
          /\ (to_clipboard /\ env.clipboard = "ok") =>
               EventsAt(events, "clipboard", text) # {} /\ successes # {}
          /\ (to_clipboard /\ env.clipboard # "ok") =>
               /\ EventsAt(events, "error", "Failed to copy to clipboard:") # {}
               /\ successes = {}
          /\ ~to_clipboard => copies = {}
          /\ ~to_file => \A n \in DOMAIN events : events[n].kind # "file"
          /\ (IsInt(GetOr(config.chunkSize, JInt(WRITE_OUTPUT_CHUNK_SIZE)))
                /\ Len(text) > GetOr(config.chunkSize, JInt(WRITE_OUTPUT_CHUNK_SIZE)).num) =>
               EventsAt(events, "print", "Warning: Content size") # {}

----------------------------------------------------------------------------
(* cpai/constants.py                                                       *)

DEFAULT_CHUNK_SIZE == 90000

DEFAULT_EXCLUDE_PATTERNS ==
    <<<<"*", "*", "/", "b", "u", "i", "l", "d", "/", "*", "*">>,
      <<"*", "*", "/", "d", "i", "s", "t", "/", "*", "*">>,
      <<"*", "*", "/", "_", "_", "p", "y", "c", "a", "c", "h", "e", "_", "_", "/", "*", "*">>,
      <<"*", "*", "/", ".", "c", "a", "c", "h", "e", "/", "*", "*">>,
      <<"*", "*", "/", "c", "o", "v", "e", "r", "a", "g", "e", "/", "*", "*">>,
      <<"*", "*", "/", ".", "n", "e", "x", "t", "/", "*", "*">>,
      <<"*", "*", "/", "o", "u", "t", "/", "*", "*">>,
      <<"*", "*", "/", ".", "n", "u", "x", "t", "/", "*", "*">>,
      <<"*", "*", "/", ".", "o", "u", "t", "p", "u", "t", "/", "*", "*">>,
      <<"*", "*", "/", "*", ".", "e", "g", "g", "-", "i", "n", "f", "o", "/", "*", "*">>,
      <<"*", "*", "/", "n", "o", "d", "e", "_", "m", "o", "d", "u", "l", "e", "s", "/", "*", "*">>,
      <<"*", "*", "/", "v", "e", "n", "v", "/", "*", "*">>,
      <<"*", "*", "/", "v", "i", "r", "t", "u", "a", "l", "e", "n", "v", "/", "*", "*">>,
      <<"*", "*", "/", "e", "n", "v", "/", "*", "*">>,
      <<"*", "*", "/", ".", "e", "n", "v", "/", "*", "*">>,
      <<"*", "*", "/", ".", "v", "e", "n", "v", "/", "*", "*">>,
      <<"*", "*", "/", "t", "e", "s", "t", "/", "*", "*">>,
      <<"*", "*", "/", "t", "e", "s", "t", "s", "/", "*", "*">>,
      <<"*", "*", "/", "_", "_", "t", "e", "s", "t", "s", "_", "_", "/", "*", "*">>,
      <<"*", "*", "/", "*", ".", "t", "e", "s", "t", ".", "*">>,
      <<"*", "*", "/", "*", ".", "s", "p", "e", "c", ".", "*">>,
      <<"*", "*", "/", ".", "i", "d", "e", "a", "/", "*", "*">>,
      <<"*", "*", "/", ".", "v", "s", "c", "o", "d", "e", "/", "*", "*">>,
      <<"*", "*", "/", ".", "D", "S", "_", "S", "t", "o", "r", "e">>,
      <<"*", "*", "/", ".", "g", "i", "t", "/", "*", "*">>,
      <<"*", "*", "/", ".", "s", "v", "n", "/", "*", "*">>,
      <<"*", "*", "/", ".", "h", "g", "/", "*", "*">>,
      <<"*", "*", "/", "*", ".", "l", "o", "g">>,
      <<"*", "*", "/", "n", "p", "m", "-", "d", "e", "b", "u", "g", ".", "l", "o", "g", "*">>,
      <<"*", "*", "/", "y", "a", "r", "n", "-", "d", "e", "b", "u", "g", ".", "l", "o", "g", "*">>,
      <<"*", "*", "/", "y", "a", "r", "n", "-", "e", "r", "r", "o", "r", ".", "l", "o", "g", "*">>,
      <<"*", "*", "/", ".", "e", "n", "v">>,
      <<"*", "*", "/", ".", "e", "n", "v", "r", "c">>,
      <<"*", "*", "/", ".", "e", "n", "v", ".", "*">>,
      <<"*", "*", "/", ".", "p", "y", "t", "h", "o", "n", "-", "v", "e", "r", "s", "i", "o", "n">>,
      <<"*", "*", "/", ".", "r", "u", "b", "y", "-", "v", "e", "r", "s", "i", "o", "n">>,
      <<"*", "*", "/", ".", "n", "o", "d", "e", "-", "v", "e", "r", "s", "i", "o", "n">>,
      <<"*", "*", "/", "p", "a", "c", "k", "a", "g", "e", ".", "j", "s", "o", "n">>,
      <<"*", "*", "/", "p", "a", "c", "k", "a", "g", "e", "-", "l", "o", "c", "k", ".", "j", "s", "o", "n">>,
      <<"*", "*", "/", "y", "a", "r", "n", ".", "l", "o", "c", "k">>,
      <<"*", "*", "/", "t", "s", "c", "o", "n", "f", "i", "g", ".", "j", "s", "o", "n">>,
      <<"*", "*", "/", "j", "s", "c", "o", "n", "f", "i", "g", ".", "j", "s", "o", "n">>,
      <<"*", "*", "/", "*", ".", "c", "o", "n", "f", "i", "g", ".", "j", "s">>,
      <<"*", "*", "/", "p", "y", "p", "r", "o", "j", "e", "c", "t", ".", "t", "o", "m", "l">>,
      <<"*", "*", "/", "s", "e", "t", "u", "p", ".", "p", "y">>,
      <<"*", "*", "/", "s", "e", "t", "u", "p", ".", "c", "f", "g">>,
      <<"*", "*", "/", "r", "e", "q", "u", "i", "r", "e", "m", "e", "n", "t", "s", ".", "t", "x", "t">>,
      <<"*", "*", "/", "P", "i", "p", "f", "i", "l", "e">>,
      <<"*", "*", "/", "P", "i", "p", "f", "i", "l", "e", ".", "l", "o", "c", "k">>,
      <<"*", "*", "/", "b", "o", "w", "e", "r", ".", "j", "s", "o", "n">>,
      <<"*", "*", "/", "c", "o", "m", "p", "o", "s", "e", "r", ".", "j", "s", "o", "n">>,
      <<"*", "*", "/", "c", "o", "m", "p", "o", "s", "e", "r", ".", "l", "o", "c", "k">>,
      <<"*", "*", "/", "*", ".", "m", "i", "n", ".", "j", "s">>,
      <<"*", "*", "/", "*", ".", "m", "i", "n", ".", "c", "s", "s">>,
      <<"*", "*", "/", "*", ".", "m", "a", "p">>,
      <<"*", "*", "/", "d", "i", "s", "t", "/", "*", "*">>,
      <<"*", "*", "/", "b", "u", "i", "l", "d", "/", "*", "*">>,
      <<"*", "*", "/", "t", "a", "r", "g", "e", "t", "/", "*", "*">>,
      <<"*", "*", "/", "*", ".", "j", "p", "g">>,
      <<"*", "*", "/", "*", ".", "j", "p", "e", "g">>,
      <<"*", "*", "/", "*", ".", "p", "n", "g">>,
      <<"*", "*", "/", "*", ".", "g", "i", "f">>,
      <<"*", "*", "/", "*", ".", "i", "c", "o">>,
      <<"*", "*", "/", "*", ".", "p", "d", "f">>,
      <<"*", "*", "/", "*", ".", "z", "i", "p">>,
      <<"*", "*", "/", "*", ".", "t", "a", "r", ".", "g", "z">>,
      <<"*", "*", "/", "*", ".", "t", "g", "z">>,
      <<"*", "*", "/", "*", ".", "w", "o", "f", "f">>,
      <<"*", "*", "/", "*", ".", "w", "o", "f", "f", "2">>,
      <<"*", "*", "/", "*", ".", "t", "t", "f">>,
      <<"*", "*", "/", "*", ".", "e", "o", "t">>,
      <<"*", "*", "/", "*", ".", "m", "p", "3">>,
      <<"*", "*", "/", "*", ".", "m", "p", "4">>,
      <<"*", "*", "/", "*", ".", "m", "o", "v">>,
      <<"*", "*", "/", "*", ".", "a", "v", "i">>>>

DEFAULT_FILE_EXTENSIONS ==
    <<<<".", "t", "s">>, <<".", "j", "s">>, <<".", "p", "y">>,
      <<".", "r", "s">>, <<".", "s", "o", "l">>, <<".", "g", "o">>,
      <<".", "j", "s", "x">>, <<".", "t", "s", "x">>,
      <<".", "c", "s", "s">>, <<".", "s", "c", "s", "s">>,
      <<".", "s", "v", "e", "l", "t", "e">>, <<".", "h", "t", "m", "l">>,
      <<".", "j", "a", "v", "a">>, <<".", "c">>, <<".", "c", "p", "p">>,
      <<".", "h">>, <<".", "h", "p", "p">>, <<".", "r", "b">>,
      <<".", "p", "h", "p">>, <<".", "s", "w", "i", "f", "t">>,
      <<".", "k", "t">>, <<".", "s", "c", "a", "l", "a">>,
      <<".", "s", "h">>, <<".", "b", "a", "s", "h">>, <<".", "m", "d">>,
      <<".", "j", "s", "o", "n">>, <<".", "y", "a", "m", "l">>,
      <<".", "y", "m", "l">>, <<".", "t", "o", "m", "l">>>>

----------------------------------------------------------------------------
(* read_config()                                                           *)

(* the handling of config['exclude']: the key as it is left in config, and *)
(* the list default_config['exclude'], which the patterns of a valid list  *)
(* are appended to in place                                                *)
handle_exclude(exclude) ==
    CASE exclude.type = "absent" ->
           [config |-> JAbsent, default |-> JList(DEFAULT_EXCLUDE_PATTERNS)]
      [] exclude.type = "list" ->
           [config |-> JList(DEFAULT_EXCLUDE_PATTERNS \o exclude.items),
            default |-> JList(DEFAULT_EXCLUDE_PATTERNS \o exclude.items)]
      [] OTHER ->
           [config |-> JAbsent, default |-> JList(DEFAULT_EXCLUDE_PATTERNS)]

(* default_config.update(config), for one key *)
updated(default, value) == IF value = JAbsent THEN default ELSE value

(* read_config(): the dict returned, or the exception *)
read_config(file) ==
    LET default_config ==
            [include |-> JList(<<<<"*", "*", "/", "*">>>>),
             exclude |-> JList(DEFAULT_EXCLUDE_PATTERNS),
             outputFile |-> JBool(FALSE),
             usePastebin |-> JBool(TRUE),
             fileExtensions |-> JList(DEFAULT_FILE_EXTENSIONS),
             chunkSize |-> JInt(DEFAULT_CHUNK_SIZE)]
        config == file.object
        exclude == handle_exclude(config.exclude)
        with_exclude == [default_config EXCEPT !.exclude = exclude.default]
        after_update ==
            IF config.outputFile.type \in {"bool", "str"}
            THEN [with_exclude EXCEPT
                    !.include = updated(@, config.include),
                    !.exclude = updated(@, exclude.config),
                    !.outputFile = updated(@, config.outputFile),
                    !.chunkSize = updated(@, config.chunkSize)]
            ELSE with_exclude
        after_chunk_size ==
            IF config.chunkSize # JAbsent /\ IsInt(config.chunkSize)
            THEN [after_update EXCEPT !.chunkSize = config.chunkSize]
            ELSE after_update
    IN  CASE file.kind \in {"absent", "invalid_json"} ->
               [config |-> default_config, raised |-> FALSE]
          [] file.kind = "not_an_object" ->
               [config |-> default_config, raised |-> TRUE]
          [] OTHER -> [config |-> after_chunk_size, raised |-> FALSE]

(* what cpai.config.json may hold under the four keys *)
ConfigObjects ==
    [include : {JAbsent, JList(<<<<"s", "r", "c">>>>), JStr(<<"s", "r", "c">>)},
     exclude : {JAbsent, JNull, JList(<<<<"x">>>>), JStr(<<"x">>)},
     chunkSize : {JAbsent, JInt(5), JBool(TRUE), JStr(<<"b", "i", "g">>)},
     outputFile : {JAbsent, JBool(FALSE), JStr(<<"o", ".", "m", "d">>), JInt(3), JNull}]

NoObject ==
    [include |-> JAbsent, exclude |-> JAbsent, chunkSize |-> JAbsent,
     outputFile |-> JAbsent]

(* cpai.config.json: absent, not JSON, JSON that is not an object, or an   *)
(* object                                                                  *)
ConfigFiles ==
    {[kind |-> k, object |-> NoObject] : k \in {"absent", "invalid_json", "not_an_object"}}
    \cup {[kind |-> "object", object |-> o] : o \in ConfigObjects}

ConfigInit ==
    /\ ExtractorIdle
    /\ TreeIdle
    /\ FilesIdle
    /\ environment \in [fn : {"read_config"}, file : ConfigFiles]
    /\ outcome = None

ReadConfig ==
    /\ environment.fn = "read_config"
    /\ outcome = None
    /\ outcome' = Some(read_config(environment.file))
    /\ UNCHANGED <<lang, content, pc, functions, raised, callVars, treeVars, fileVars,
                   environment>>

ConfigNext == ReadConfig

ConfigSpec == ConfigInit /\ [][ConfigNext]_vars

(* the defaults as the specification has them *)
ClaimedDefaults ==
    [include |-> JList(<<<<".">>>>),
     exclude |-> JList(DEFAULT_EXCLUDE_PATTERNS),
     chunkSize |-> JInt(DEFAULT_CHUNK_SIZE),
     outputFile |-> JBool(FALSE)]

(* C25: read_config validates each field on its own: an invalid field      *)
(* (include or exclude not a list, chunkSize not an integer, outputFile    *)
(* not a bool or string) comes back with its default and every valid field *)
(* with the file's value (for exclude: the file's patterns, also when      *)
(* they follow the default patterns); a file that is absent or not valid   *)
(* JSON gives the defaults.                                                *)
C25_FieldsIndependent ==
    outcome # None =>
      LET result == outcome[1].config
          file == environment.file
          object == file.object
      IN  /\ ~outcome[1].raised
          /\ file.kind \in {"absent", "invalid_json"} =>
               /\ result.include = ClaimedDefaults.include
               /\ result.exclude = ClaimedDefaults.exclude
               /\ result.chunkSize = ClaimedDefaults.chunkSize
               /\ result.outputFile = ClaimedDefaults.outputFile
          /\ file.kind = "object" =>
               /\ result.include =
                    IF object.include.type = "list" THEN object.include
                    ELSE ClaimedDefaults.include
               /\ IF object.exclude.type = "list"
                  THEN result.exclude \in
                         {object.exclude,
                          JList(DEFAULT_EXCLUDE_PATTERNS \o object.exclude.items)}
                  ELSE result.exclude = ClaimedDefaults.exclude
               /\ result.chunkSize =
                    IF IsInt(object.chunkSize) THEN object.chunkSize
                    ELSE ClaimedDefaults.chunkSize
               /\ result.outputFile =
                    IF object.outputFile.type \in {"bool", "str"} THEN object.outputFile
                    ELSE ClaimedDefaults.outputFile

----------------------------------------------------------------------------
(* get_files(directory, config, include_all)                               *)

MaxEntries == 2

STARSTAR == <<"*", "*">>

(* the translation of one path segment of a pattern: * stands for any run  *)
(* of characters of the segment, ? for one, anything else for itself       *)
RECURSIVE glob_from(_, _, _, _)
glob_from(glob, i, str, j) ==
    IF i > Len(glob) THEN j > Len(str)
    ELSE IF glob[i] = "*"
         THEN \E k \in j..(Len(str) + 1) : glob_from(glob, i + 1, str, k)
         ELSE /\ j <= Len(str)
              /\ glob[i] = "?" \/ glob[i] = str[j]
              /\ glob_from(glob, i + 1, str, j + 1)

(* GitWildMatchPattern: the segments of a pattern after normalisation. A   *)
(* pattern with a leading slash or a slash inside is anchored at the       *)
(* directory, any other matches at every depth, and a trailing slash       *)
(* asks for what lies below.                                               *)
pattern_segments(pattern) ==
    LET segs == split(pattern, "/")
        placed == IF segs[1] = <<>> /\ Len(segs) > 1 THEN Tail(segs)
                  ELSE IF Len(segs) = 1 \/ (Len(segs) = 2 /\ segs[2] = <<>>)
                       THEN IF segs[1] = STARSTAR THEN segs ELSE <<STARSTAR>> \o segs
                       ELSE segs
    IN  IF Len(placed) > 1 /\ placed[Len(placed)] = <<>>
        THEN [placed EXCEPT ![Len(placed)] = STARSTAR]
        ELSE placed

(* the regular expression of the segments from the i-th on, against the    *)
(* components of a path from the j-th on: ** takes any number of leading   *)
(* or inner components and at least one trailing component, and what lies  *)
(* below a matched path is matched with it                                 *)
RECURSIVE match_segments(_, _, _, _)
match_segments(segs, i, parts, j) ==
    IF i > Len(segs) THEN TRUE
    ELSE IF segs[i] = STARSTAR
         THEN IF i = Len(segs) THEN j <= Len(parts)
              ELSE \E k \in j..(Len(parts) + 1) : match_segments(segs, i + 1, parts, k)
         ELSE /\ j <= Len(parts)
              /\ glob_from(segs[i], 1, parts[j], 1)
              /\ match_segments(segs, i + 1, parts, j + 1)

(* a pattern whose first character is ! *)
negated(pattern) == pattern # <<>> /\ pattern[1] = "!"

(* GitWildMatchPattern(pattern).match_file(path), the ! left aside *)
pattern_matches(pattern, path) ==
    LET bare == IF negated(pattern) THEN Tail(pattern) ELSE pattern
    IN  match_segments(pattern_segments(bare), 1, split(path, "/"), 1)

(* PathSpec.match_file(path): the last pattern that matches decides, and a *)
(* negated pattern decides against                                         *)
match_file(patterns, path) ==
    LET hits == {k \in DOMAIN patterns : pattern_matches(patterns[k], path)}
    IN  hits # {} /\ ~negated(patterns[Max(hits)])

(* the loop over the lines of .gitignore: the patterns it appends *)
RECURSIVE gitignore_patterns(_)
gitignore_patterns(lines) ==
    IF lines = <<>> THEN <<>>
    ELSE LET line == StripChars(Head(lines))
             rest == gitignore_patterns(Tail(lines))
         IN  IF line = <<>> \/ line[1] = "#" THEN rest
             ELSE IF line[1] = "!"
                  THEN LET pattern == Tail(line)
                       IN  <<<<"!">> \o (IF pattern # <<>> /\ pattern[1] = "/"
                                         THEN Tail(pattern) ELSE pattern)>> \o rest
                  ELSE <<IF line[1] = "/" THEN Tail(line) ELSE line>> \o rest

(* the exclude patterns: the default ones, then the list of the config,    *)
(* then those of .gitignore                                                *)
exclude_patterns(config, gitignore) ==
    LET custom_excludes == GetOr(config.exclude, JList(<<>>))
    IN  DEFAULT_EXCLUDE_PATTERNS
        \o (IF Truthy(custom_excludes) /\ custom_excludes.type = "list"
            THEN custom_excludes.items ELSE <<>>)
        \o (IF gitignore = None THEN <<>> ELSE gitignore_patterns(gitignore[1]))

(* os.path.abspath(os.path.join(root, file)) *)
abspath(directory, rel_path) == directory \o <<"/">> \o rel_path

(* the files os.walk() lists: the entries of the directory, .gitignore     *)
(* among them when there is one                                            *)
walk(entries, gitignore) ==
    entries \cup (IF gitignore = None THEN {}
                  ELSE {[path |-> <<".", "g", "i", "t", "i", "g", "n", "o", "r", "e">>,
                         kind |-> "file"]})

(* the body of the loop over the files: whether the file is kept *)
keeps(entry, config, include_all, excludes) ==
    LET include_patterns == GetOr(config.include, JList(<<<<"*", "*", "/", "*">>>>)).items
        file_extensions == IF include_all THEN <<>>
                           ELSE GetOr(config.fileExtensions, JList(<<>>)).items
        ext == lower(splitext_ext(entry.path))
    IN  /\ entry.kind # "broken_symlink"
        /\ ~match_file(excludes, entry.path)
        /\ match_file(include_patterns, entry.path)
        /\ file_extensions # <<>> => (ext # <<>> /\ ext \in Range(file_extensions))

(* get_files(directory, config, include_all) *)
get_files(directory, entries, gitignore, config, include_all) ==
    LET excludes == exclude_patterns(config, gitignore)
    IN  sorted_strings({abspath(directory, entry.path) :
                          entry \in {e \in walk(entries, gitignore) :
                                       keeps(e, config, include_all, excludes)}})

WorkDirectory == <<"/", "w">>

(* relative paths of the entries of a directory *)
EntryPaths ==
    {<<"a", ".", "p", "y">>,
     <<"k", "e", "e", "p", ".", "l", "o", "g">>,
     <<"t", "e", "m", "p", "/", "k", "e", "e", "p", ".", "t", "x", "t">>,
     <<"t", "e", "m", "p", "/", "t", ".", "p", "y">>,
     <<"t", "e", "s", "t", "s", "/", "u", ".", "p", "y">>,
     <<"R", "E", "A", "D", "M", "E">>,
     <<"s", "r", "c", "/", "B", ".", "P", "Y">>}

DirectoryEntries ==
    {[path |-> p, kind |-> "file"] : p \in EntryPaths}
    \cup {[path |-> <<"g", "o", "n", "e", ".", "p", "y">>, kind |-> "broken_symlink"]}

Directories == {d \in SUBSET DirectoryEntries : Cardinality(d) <= MaxEntries}

(* .gitignore: none, or its lines *)
GitignoreFiles ==
    {None,
     Some(<<<<"*", ".", "l", "o", "g">>>>),
     Some(<<<<"t", "e", "m", "p", "/", "*">>, <<"!", "t", "e", "m", "p", "/", "k", "e", "e", "p", ".", "t", "x", "t">>>>),
     Some(<<<<"#", " ", "l", "o", "g", "s">>, <<>>, <<" ", "!", "/", "k", "e", "e", "p", ".", "l", "o", "g">>>>)}

GetFilesConfigs ==
    [include : {JAbsent, JList(<<<<"*", "*", "/", "*", ".", "p", "y">>>>)},
     exclude : {JAbsent, JNull, JList(<<>>), JList(<<<<"s", "r", "c", "/", "*", "*">>>>)},
     fileExtensions : {JAbsent, JList(<<<<".", "p", "y">>, <<".", "t", "x", "t">>, <<".", "l", "o", "g">>>>)}]

GetFilesInit ==
    /\ ExtractorIdle
    /\ TreeIdle
    /\ FilesIdle
    /\ environment \in [fn : {"get_files"}, entries : Directories,
                        gitignore : GitignoreFiles, config : GetFilesConfigs,
                        include_all : BOOLEAN]
    /\ outcome = None

GetFiles ==
    /\ environment.fn = "get_files"
    /\ outcome = None
    /\ outcome' = Some(get_files(WorkDirectory, environment.entries,
                                 environment.gitignore, environment.config,
                                 environment.include_all))
    /\ UNCHANGED <<lang, content, pc, functions, raised, callVars, treeVars, fileVars,
                   environment>>

GetFilesNext == GetFiles

GetFilesSpec == GetFilesInit /\ [][GetFilesNext]_vars

(* the non-negated patterns of .gitignore *)
PlainGitignorePatterns ==
    IF environment.gitignore = None THEN {}
    ELSE {p \in Range(gitignore_patterns(environment.gitignore[1])) : ~negated(p)}

(* the patterns of the exclude list of the config *)
ConfigExcludePatterns ==
    IF environment.config.exclude.type = "list"
    THEN Range(environment.config.exclude.items) ELSE {}

(* C26: get_files returns a sorted list of absolute paths of existing      *)
(* files under the directory; no returned file matches a default exclude   *)
(* pattern, an exclude pattern of the config or a non-negated .gitignore   *)
(* pattern; every returned file matches an include pattern and, unless     *)
(* include_all is set, has an extension in the fileExtensions of the       *)
(* config; broken symlinks are never returned.                             *)
C26_GetFilesContract ==
    outcome # None =>
      LET result == outcome[1]
          config == environment.config
          includes == GetOr(config.include, JList(<<<<"*", "*", "/", "*">>>>)).items
          extensions == GetOr(config.fileExtensions, JList(<<>>)).items
      IN  /\ \A i \in 1..(Len(result) - 1) : str_less(result[i], result[i + 1])
          /\ \A i \in DOMAIN result :
               \E entry \in walk(environment.entries, environment.gitignore) :
                 /\ result[i] = abspath(WorkDirectory, entry.path)
                 /\ entry.kind = "file"
                 /\ \A p \in Range(DEFAULT_EXCLUDE_PATTERNS) \cup ConfigExcludePatterns
                              \cup PlainGitignorePatterns :
                      ~pattern_matches(p, entry.path)
                 /\ \E p \in Range(includes) : pattern_matches(p, entry.path)
                 /\ (~environment.include_all /\ config.fileExtensions # JAbsent) =>
                      lower(splitext_ext(entry.path)) \in Range(extensions)

====
